---- MODULE Spec2Model ----
(***************************************************************************)
(* Buffered command store / interpreter and the sample part of the audio   *)
(* command channel of agon-vdp (video/vdu_buffered.h, video/vdu_audio.h).  *)
(*                                                                         *)
(* Blocks live in a heap (address -> bytes) and are shared by reference:   *)
(* a buffer is a sequence of block addresses, a sample holds block         *)
(* addresses, an input stream of a nested interpreter holds block          *)
(* addresses.  A block is freed when nothing refers to it any more.        *)
(* Commands are bytes: the interpreter decodes them from its input stream  *)
(* (the serial input at top level, the blocks of a buffer when nested).    *)
(***************************************************************************)
EXTENDS Integers, Sequences, FiniteSets, TLC

VARIABLES
    buffers,   \* the buffer store: bufferId -> sequence of block addresses
    heap,      \* block address -> sequence of bytes (the block's storage)
    samples,   \* the sample store: sampleId -> sample record
    stack,     \* nested interpreters, innermost last: [id, src, blocks, pos,
               \* outputStream, originalOutputStream]; id is the interpreter's
               \* id field, src (history) the buffer its input stream was
               \* last created over
    outputStream,  \* the output stream of the top-level interpreter
    audioChannels, \* channel number -> state of the audio channel
    input,     \* bytes waiting on the top-level (serial) input stream
    fed,       \* number of transmissions the host has sent so far
    last,      \* history: the command executed by the latest step
    pre        \* history: the stores as they were before the latest step

vars ==
    <<buffers, heap, samples, stack, outputStream, audioChannels, input, fed,
      last, pre>>

----------------------------------------------------------------------------
(* Bounds of the model.                                                    *)

MaxBlocks == 8
MaxCmds == 3
MaxDepth == 3

MaxChannels == 2

----------------------------------------------------------------------------
(* Program constants.                                                      *)

ReservedId == 65535

VDU_SYS == 23
VDU_SYS_VDP == 0
VDP_BUFFERED == 160
VDP_AUDIO == 133

BUFFERED_WRITE == 0
BUFFERED_CALL == 1
BUFFERED_CLEAR == 2
BUFFERED_CREATE == 3
BUFFERED_SET_OUTPUT == 4
BUFFERED_ADJUST == 5
BUFFERED_COND_CALL == 6
BUFFERED_JUMP == 7
BUFFERED_COND_JUMP == 8
BUFFERED_OFFSET_JUMP == 9
BUFFERED_OFFSET_COND_JUMP == 10
BUFFERED_OFFSET_CALL == 11
BUFFERED_OFFSET_COND_CALL == 12
BUFFERED_COPY == 13
BUFFERED_CONSOLIDATE == 14
BUFFERED_SPLIT == 15
BUFFERED_SPLIT_INTO == 16
BUFFERED_SPLIT_FROM == 17
BUFFERED_SPLIT_BY == 18
BUFFERED_SPLIT_BY_INTO == 19
BUFFERED_SPLIT_BY_FROM == 20
BUFFERED_SPREAD_INTO == 21
BUFFERED_SPREAD_FROM == 22
BUFFERED_REVERSE_BLOCKS == 23
BUFFERED_REVERSE == 24
BUFFERED_COPY_REF == 25
BUFFERED_COPY_AND_CONSOLIDATE == 26
BUFFERED_DEBUG_INFO == 32

\* "no value": what readByte_t / readWord_t / read24_t / getBufferByte return
\* when nothing can be read
NoValue == -1

\* blockIndex = -1 of an AdvancedOffset: the largest unsigned index.  It is
\* only ever compared with the number of blocks of a buffer, so the largest
\* 32-bit signed number stands for it.
BlockIndexMax == 2147483647

----------------------------------------------------------------------------
(* Sequences and maps.                                                     *)

Min(a, b) == IF a < b THEN a ELSE b

Drop(s, n) == SubSeq(s, n + 1, Len(s))

Take(s, n) == SubSeq(s, 1, Min(n, Len(s)))

Range(s) == {s[i] : i \in DOMAIN s}

\* the map m with key k set to v (std::unordered_map::operator[] then assign)
MapPut(m, k, v) == [x \in DOMAIN m \cup {k} |-> IF x = k THEN v ELSE m[x]]

\* the map m without key k (erase)
MapDel(m, k) == [x \in DOMAIN m \ {k} |-> m[x]]

EmptyMap == [x \in {} |-> 0]

----------------------------------------------------------------------------
(* Blocks.                                                                 *)

\* address of a newly allocated block: one that no live block has
Fresh(h) == CHOOSE a \in 1..(Cardinality(DOMAIN h) + 1) : a \notin DOMAIN h

\* bytes of a list of blocks, in order (what a MultiBufferStream reads)
RECURSIVE Flat(_, _)
Flat(blocks, h) ==
    IF blocks = <<>> THEN <<>> ELSE h[Head(blocks)] \o Flat(Tail(blocks), h)

\* total size of a list of blocks
RECURSIVE TotalSize(_, _)
TotalSize(blocks, h) ==
    IF blocks = <<>> THEN 0 ELSE Len(h[Head(blocks)]) + TotalSize(Tail(blocks), h)

\* the audio channels, none of them enabled
Channels == 0..(MaxChannels - 1)

NoChannels == [c \in Channels |-> "Disabled"]

\* an output stream is the serial port, none (nullptr), or a block
SerialOutput == 0

NoOutput == NoValue

\* blocks referenced by the stores, by the running input streams and by
\* the output streams of the interpreters (out is the top-level one's)
Referenced(bufs, smp, stk, out) ==
    UNION {Range(bufs[k]) : k \in DOMAIN bufs}
    \cup UNION {Range(smp[k].blocks) : k \in DOMAIN smp}
    \cup UNION {Range(stk[i].blocks) : i \in DOMAIN stk}
    \cup {stk[i].outputStream : i \in DOMAIN stk}
    \cup {stk[i].originalOutputStream : i \in DOMAIN stk}
    \cup {out}

\* shared_ptr: a block nothing refers to is destroyed
Collect(h, bufs, smp, stk, out) ==
    [a \in DOMAIN h \cap Referenced(bufs, smp, stk, out) |-> h[a]]

----------------------------------------------------------------------------
(* Input streams.                                                          *)

\* unordered_map::operator[] as a read: a missing key reads as an empty list
At(b, k) == IF k \in DOMAIN b THEN b[k] ELSE <<>>

\* id of the interpreter that is running: 65535 for the top-level one
CurId(stk) == IF stk = <<>> THEN ReservedId ELSE stk[Len(stk)].id

\* bytes the running interpreter has not read yet
RemOf(stk, inp, h) ==
    IF stk = <<>> THEN inp
    ELSE Drop(Flat(stk[Len(stk)].blocks, h), stk[Len(stk)].pos)

Rem == RemOf(stack, input, heap)

\* inputStream->available() of the running interpreter
Available(stk, inp, h) == Len(RemOf(stk, inp, h))

\* the streams after the running interpreter has read n bytes
StackAfter(n) ==
    IF stack = <<>> THEN stack
    ELSE [stack EXCEPT ![Len(stack)].pos = @ + Min(n, Len(Rem))]

InputAfter(n) == IF stack = <<>> THEN Drop(input, Min(n, Len(input))) ELSE input

\* readByte_t, readWord_t, read24_t at the i-th unread byte: the value, or -1
\* when the stream ends (or times out) first
readByte_t(rem, i) == IF i <= Len(rem) THEN rem[i] ELSE NoValue

readWord_t(rem, i) ==
    IF i + 1 <= Len(rem) THEN rem[i] + 256 * rem[i + 1] ELSE NoValue

read24_t(rem, i) ==
    IF i + 2 <= Len(rem) THEN rem[i] + 256 * rem[i + 1] + 65536 * rem[i + 2]
    ELSE NoValue

\* MultiBufferStream::seekTo(blockOffset, blockIndex) as a position in the
\* stream's bytes: past the last block is the end of the stream
RECURSIVE SizeBefore(_, _, _)
SizeBefore(blocks, h, idx) ==
    IF idx = 0 \/ blocks = <<>> THEN 0
    ELSE Len(h[Head(blocks)]) + SizeBefore(Tail(blocks), h, idx - 1)

seekTo(blocks, h, blockOffset, blockIndex) ==
    IF blockIndex >= Len(blocks) THEN TotalSize(blocks, h)
    ELSE Min(TotalSize(blocks, h), SizeBefore(blocks, h, blockIndex) + blockOffset)

\* resolveBufferId(id, current): 65535 names the current buffer; -1 when
\* there is none
resolveBufferId(id, current) ==
    IF id = ReservedId
    THEN (IF current = ReservedId THEN NoValue ELSE current)
    ELSE id

\* AdvancedOffset {} and the end-of-stream offset of a plain JUMP to 65535
Offset(blockIndex, blockOffset) ==
    [blockIndex |-> blockIndex, blockOffset |-> blockOffset]

ZeroOffset == Offset(0, 0)

----------------------------------------------------------------------------
(* The stores as one value, for the operations below.                      *)

Store(b, h, s) == [b |-> b, h |-> h, s |-> s]

Now == Store(buffers, heap, samples)

\* a new block holding `data`, allocated in store m: [m, a]
Alloc(m, data) ==
    LET a == Fresh(m.h) IN [m |-> [m EXCEPT !.h = MapPut(m.h, a, data)], a |-> a]

Zeros(n) == [i \in 1..n |-> 0]

----------------------------------------------------------------------------
(* Samples (audio side of the store).                                      *)

\* clearSample(id): forget the sample stored at id
clearSample(s, id) == IF id \in DOMAIN s THEN MapDel(s, id) ELSE s

\* resetSamples(): forget every sample
resetSamples(s) == EmptyMap

----------------------------------------------------------------------------
(* Buffer store operations.                                                *)

\* readIntoBuffer(dst, length): bytes still missing after reading what the
\* stream has
readIntoBuffer(src, length) == length - Min(length, Len(src))

\* variant of bufferWrite that puts the new block in place of the old ones
bufferWrite_replace(m, bufferId, length, src) ==
    LET remaining == readIntoBuffer(src, length)
        made == Alloc(m, Take(src, length))
    IN  IF remaining > 0 THEN [m |-> m, ret |-> remaining, n |-> Len(src)]
        ELSE IF bufferId = ReservedId THEN [m |-> m, ret |-> remaining, n |-> length]
        ELSE [m |-> [made.m EXCEPT !.b = MapPut(m.b, bufferId, <<made.a>>)],
              ret |-> remaining, n |-> length]

\* variant of bufferWrite that stores the bytes that did arrive
bufferWrite_partial(m, bufferId, length, src) ==
    LET remaining == readIntoBuffer(src, length)
        made == Alloc(m, Take(src, length))
    IN  IF bufferId = ReservedId
        THEN [m |-> m, ret |-> remaining, n |-> Min(length, Len(src))]
        ELSE [m |-> [made.m EXCEPT
                        !.b = MapPut(m.b, bufferId, Append(At(m.b, bufferId), made.a))],
              ret |-> remaining, n |-> Min(length, Len(src))]

\* bufferWrite: [m, ret, n] with n the payload bytes read
bufferWrite(m, bufferId, length, src) ==
    LET remaining == readIntoBuffer(src, length)
        made == Alloc(m, Take(src, length))
    IN  IF remaining > 0 THEN [m |-> m, ret |-> remaining, n |-> Len(src)]
        ELSE IF bufferId = ReservedId THEN [m |-> m, ret |-> remaining, n |-> length]
        ELSE [m |-> [made.m EXCEPT
                        !.b = MapPut(m.b, bufferId, Append(At(m.b, bufferId), made.a))],
              ret |-> remaining, n |-> length]

\* variant of bufferClear that does not call clearSample
bufferClear_keep_sample(m, bufferId) ==
    IF bufferId = ReservedId
    THEN [m EXCEPT !.b = EmptyMap, !.s = resetSamples(m.s)]
    ELSE IF bufferId \notin DOMAIN m.b THEN m
    ELSE [m EXCEPT !.b = MapDel(m.b, bufferId)]

\* variant of bufferClear that does not call resetSamples
bufferClear_keep_samples(m, bufferId) ==
    IF bufferId = ReservedId
    THEN [m EXCEPT !.b = EmptyMap]
    ELSE IF bufferId \notin DOMAIN m.b THEN m
    ELSE [m EXCEPT !.b = MapDel(m.b, bufferId), !.s = clearSample(m.s, bufferId)]

\* bufferClear
bufferClear(m, bufferId) ==
    IF bufferId = ReservedId
    THEN [m EXCEPT !.b = EmptyMap, !.s = resetSamples(m.s)]
    ELSE IF bufferId \notin DOMAIN m.b THEN m
    ELSE [m EXCEPT !.b = MapDel(m.b, bufferId), !.s = clearSample(m.s, bufferId)]

\* variant of bufferCreate that takes a key without blocks for a free id
bufferCreate_on_empty(m, bufferId, size) ==
    LET made == Alloc(m, Zeros(size))
    IN  IF bufferId = ReservedId THEN [m |-> m, ok |-> FALSE]
        ELSE IF At(m.b, bufferId) # <<>> THEN [m |-> m, ok |-> FALSE]
        ELSE [m |-> [made.m EXCEPT !.b = MapPut(m.b, bufferId, <<made.a>>)],
              ok |-> TRUE]

\* bufferCreate followed by the caller's memset: [m, ok]
bufferCreate(m, bufferId, size) ==
    LET made == Alloc(m, Zeros(size))
    IN  IF bufferId = ReservedId THEN [m |-> m, ok |-> FALSE]
        ELSE IF bufferId \in DOMAIN m.b THEN [m |-> m, ok |-> FALSE]
        ELSE [m |-> [made.m EXCEPT !.b = MapPut(m.b, bufferId, <<made.a>>)],
              ok |-> TRUE]

\* blocks of the listed source buffers that exist, in list order; the id
\* `skip` (the target, for the copies that skip it) is left out
RECURSIVE SourceBlocks(_, _, _)
SourceBlocks(b, ids, skip) ==
    IF ids = <<>> THEN <<>>
    ELSE (IF Head(ids) # skip /\ Head(ids) \in DOMAIN b THEN b[Head(ids)] ELSE <<>>)
         \o SourceBlocks(b, Tail(ids), skip)

\* a new block with the same bytes for every block of the list: [m, out]
RECURSIVE CopyBlocks(_, _)
CopyBlocks(m, blocks) ==
    IF blocks = <<>> THEN [m |-> m, out |-> <<>>]
    ELSE LET made == Alloc(m, m.h[Head(blocks)])
             rest == CopyBlocks(made.m, Tail(blocks))
         IN  [m |-> rest.m, out |-> <<made.a>> \o rest.out]

\* variant of bufferCopy without the test for the reserved id
bufferCopy_reserved(m, bufferId, sourceBufferIds) ==
    LET streams == CopyBlocks(m, SourceBlocks(m.b, sourceBufferIds, NoValue))
    IN  [streams.m EXCEPT !.b = MapPut(m.b, bufferId, streams.out)]

\* variant of bufferCopy that stores the source blocks themselves
bufferCopy_by_reference(m, bufferId, sourceBufferIds) ==
    IF bufferId = ReservedId THEN m
    ELSE [m EXCEPT !.b = MapPut(m.b, bufferId,
                                SourceBlocks(m.b, sourceBufferIds, NoValue))]

\* bufferCopy
bufferCopy(m, bufferId, sourceBufferIds) ==
    LET streams == CopyBlocks(m, SourceBlocks(m.b, sourceBufferIds, NoValue))
    IN  IF bufferId = ReservedId THEN m
        ELSE [streams.m EXCEPT !.b = MapPut(m.b, bufferId, streams.out)]

\* consolidateBuffers: one new block holding the bytes of all the blocks
consolidateBuffers(m, blocks) == Alloc(m, Flat(blocks, m.h))

\* variant of bufferConsolidate that gathers the bytes in the first block
bufferConsolidate_first_block(m, bufferId) ==
    IF bufferId \notin DOMAIN m.b THEN m
    ELSE IF Len(m.b[bufferId]) = 1 \/ m.b[bufferId] = <<>> THEN m
    ELSE [m EXCEPT !.h = [@ EXCEPT ![m.b[bufferId][1]] = Flat(m.b[bufferId], m.h)],
                   !.b = MapPut(m.b, bufferId, <<m.b[bufferId][1]>>)]

\* bufferConsolidate
bufferConsolidate(m, bufferId) ==
    LET made == consolidateBuffers(m, m.b[bufferId])
    IN  IF bufferId \notin DOMAIN m.b THEN m
        ELSE IF Len(m.b[bufferId]) = 1 THEN m
        ELSE [made.m EXCEPT !.b = MapPut(m.b, bufferId, <<made.a>>)]

\* clearTarget: an existing target keeps its key and loses its blocks
clearTarget(b, target) ==
    IF target \in DOMAIN b THEN MapPut(b, target, <<>>) ELSE b

RECURSIVE clearTargets(_, _)
clearTargets(b, targets) ==
    IF targets = <<>> THEN b
    ELSE clearTargets(clearTarget(b, Head(targets)), Tail(targets))

\* splitBuffer: the bytes cut into pieces of `length`, the last one shorter;
\* no piece at all when nothing can be cut
RECURSIVE splitBuffer(_, _)
splitBuffer(data, length) ==
    IF data = <<>> \/ length = 0 THEN <<>>
    ELSE <<Take(data, length)>> \o splitBuffer(Drop(data, Min(length, Len(data))), length)

\* updateTarget: the next target of a distribution.  Auto-numbering
\* (iterate) counts the 16-bit id up; a list is walked round-robin.
updateTarget(ids, idx, iterate) ==
    IF iterate
    THEN [ids |-> [ids EXCEPT ![idx] = (@ + 1) % 65536], idx |-> idx,
          iterate |-> iterate]
    ELSE [ids |-> ids, idx |-> (idx % Len(ids)) + 1, iterate |-> iterate]

\* the distribution loop of bufferSplitInto: each chunk becomes a new block
\* appended to the current target
RECURSIVE DistributeChunks(_, _, _)
DistributeChunks(m, chunks, t) ==
    IF chunks = <<>> THEN m
    ELSE LET targetId == t.ids[t.idx]
             b1 == IF t.iterate THEN clearTarget(m.b, targetId) ELSE m.b
             made == Alloc(m, Head(chunks))
             m2 == [made.m EXCEPT
                       !.b = MapPut(b1, targetId, Append(At(b1, targetId), made.a))]
         IN  DistributeChunks(m2, Tail(chunks), updateTarget(t.ids, t.idx, t.iterate))

\* variant of bufferSplitInto that never clears its targets
bufferSplitInto_keep(m, bufferId, length, newBufferIds, iterate) ==
    LET data == Flat(m.b[bufferId], m.h)
        chunks == splitBuffer(data, length)
    IN  IF bufferId \notin DOMAIN m.b THEN m
        ELSE IF chunks = <<>> THEN m
        ELSE DistributeChunks(m, chunks,
                              [ids |-> newBufferIds, idx |-> 1, iterate |-> FALSE])

\* bufferSplitInto
bufferSplitInto(m, bufferId, length, newBufferIds, iterate) ==
    LET data == Flat(m.b[bufferId], m.h)
        m1 == IF iterate THEN m
              ELSE [m EXCEPT !.b = clearTargets(m.b, newBufferIds)]
        chunks == splitBuffer(data, length)
    IN  IF bufferId \notin DOMAIN m.b THEN m
        ELSE IF chunks = <<>> THEN m1
        ELSE DistributeChunks(m1, chunks,
                              [ids |-> newBufferIds, idx |-> 1, iterate |-> iterate])

\* variant of Interleave that does not go back to the first stream
RECURSIVE Interleave_no_wrap(_, _, _, _)
Interleave_no_wrap(rawchunks, chunks, chunkIndex, chunkCount) ==
    IF rawchunks = <<>> THEN chunks
    ELSE Interleave_no_wrap(Tail(rawchunks),
                    [chunks EXCEPT ![chunkIndex + 1] = @ \o Head(rawchunks)],
                    IF chunkIndex + 1 >= chunkCount THEN chunkIndex ELSE chunkIndex + 1,
                    chunkCount)

\* the raw chunks dealt out over chunkCount streams, in turn
RECURSIVE Interleave(_, _, _, _)
Interleave(rawchunks, chunks, chunkIndex, chunkCount) ==
    IF rawchunks = <<>> THEN chunks
    ELSE Interleave(Tail(rawchunks),
                    [chunks EXCEPT ![chunkIndex + 1] = @ \o Head(rawchunks)],
                    IF chunkIndex + 1 >= chunkCount THEN 0 ELSE chunkIndex + 1,
                    chunkCount)

\* bufferSplitByInto (chunkCount >= 1)
bufferSplitByInto(m, bufferId, width, chunkCount, newBufferIds, iterate) ==
    LET data == Flat(m.b[bufferId], m.h)
        m1 == IF iterate THEN m
              ELSE [m EXCEPT !.b = clearTargets(m.b, newBufferIds)]
        rawchunks == splitBuffer(data, width)
        chunks == Interleave(rawchunks, [i \in 1..chunkCount |-> <<>>], 0, chunkCount)
    IN  IF bufferId \notin DOMAIN m.b THEN m
        ELSE IF rawchunks = <<>> THEN m1
        ELSE DistributeChunks(m1, chunks,
                              [ids |-> newBufferIds, idx |-> 1, iterate |-> iterate])

\* the distribution loop of bufferSpreadInto: the blocks themselves are
\* appended to the targets
RECURSIVE DistributeBlocks(_, _, _)
DistributeBlocks(b, blocks, t) ==
    IF blocks = <<>> THEN b
    ELSE LET targetId == t.ids[t.idx]
             b1 == IF t.iterate THEN clearTarget(b, targetId) ELSE b
         IN  DistributeBlocks(MapPut(b1, targetId, Append(At(b1, targetId), Head(blocks))),
                              Tail(blocks), updateTarget(t.ids, t.idx, t.iterate))

\* bufferSpreadInto
bufferSpreadInto(m, bufferId, newBufferIds, iterate) ==
    LET b1 == IF iterate THEN m.b ELSE clearTargets(m.b, newBufferIds)
    IN  IF bufferId \notin DOMAIN m.b THEN m
        ELSE [m EXCEPT !.b = DistributeBlocks(b1, b1[bufferId],
                                 [ids |-> newBufferIds, idx |-> 1, iterate |-> iterate])]

Reverse(s) == [i \in 1..Len(s) |-> s[Len(s) + 1 - i]]

\* variant of bufferReverseBlocks that reads the buffer with operator[]
bufferReverseBlocks_creates(m, bufferId) ==
    [m EXCEPT !.b = MapPut(m.b, bufferId, Reverse(At(m.b, bufferId)))]

\* bufferReverseBlocks
bufferReverseBlocks(m, bufferId) ==
    IF bufferId \in DOMAIN m.b
    THEN [m EXCEPT !.b = MapPut(m.b, bufferId, Reverse(m.b[bufferId]))]
    ELSE m

\* variant of bufferCopyRef that stores copies of the source blocks
bufferCopyRef_copies(m, bufferId, sourceBufferIds) ==
    LET streams == CopyBlocks(m, SourceBlocks(m.b, sourceBufferIds, bufferId))
    IN  IF bufferId = ReservedId THEN m
        ELSE [streams.m EXCEPT !.b = MapPut(m.b, bufferId, streams.out)]

\* bufferCopyRef
bufferCopyRef(m, bufferId, sourceBufferIds) ==
    IF bufferId = ReservedId THEN m
    ELSE [m EXCEPT !.b = MapPut(m.b, bufferId,
                                SourceBlocks(m.b, sourceBufferIds, bufferId))]

\* the memcpy loop of bufferCopyAndConsolidate: source blocks are copied one
\* after the other into block dest, from position at
RECURSIVE CopyInto(_, _, _, _)
CopyInto(h, dest, at, blocks) ==
    IF blocks = <<>> THEN h
    ELSE LET src == h[Head(blocks)]
             new == [i \in 1..Len(h[dest]) |->
                        IF i > at /\ i <= at + Len(src) THEN src[i - at] ELSE h[dest][i]]
         IN  CopyInto([h EXCEPT ![dest] = new], dest, at + Len(src), Tail(blocks))

\* bufferCopyAndConsolidate
bufferCopyAndConsolidate(m, bufferId, sourceBufferIds) ==
    LET sources == SourceBlocks(m.b, sourceBufferIds, bufferId)
        length == TotalSize(sources, m.h)
        buffer == At(m.b, bufferId)
        reuse == Len(buffer) = 1 /\ Len(m.h[buffer[1]]) = length
        made == Alloc(m, Zeros(length))
        m1 == IF reuse THEN [m EXCEPT !.b = MapPut(m.b, bufferId, buffer)]
              ELSE [made.m EXCEPT !.b = MapPut(m.b, bufferId, <<made.a>>)]
    IN  IF bufferId = ReservedId THEN m
        ELSE [m1 EXCEPT !.h = CopyInto(m1.h, m1.b[bufferId][1], 0, sources)]

\* BUFFERED_DEBUG_INFO: buffers[bufferId] is read with operator[]
bufferDebugInfo(m, bufferId) ==
    [m EXCEPT !.b = MapPut(m.b, bufferId, At(m.b, bufferId))]

----------------------------------------------------------------------------
(* Reading arguments, and bytes of buffers at offsets.                     *)

\* whether the bit (a power of two) is set in the byte
Bit(x, bit) == (x \div bit) % 2 = 1

\* getOffsetFromStream at the i-th unread byte: the offset (blockOffset -1
\* when it cannot be read) and the index of the byte after it
getOffsetFromStream(rem, i, isAdvanced) ==
    LET o24 == read24_t(rem, i)
        blockIndex == readWord_t(rem, i + 3)
    IN  IF ~isAdvanced
        THEN [offset |-> Offset(0, readWord_t(rem, i)), next |-> i + 2]
        ELSE IF o24 # NoValue /\ Bit(o24, 8388608)
        THEN (IF blockIndex = NoValue
              THEN [offset |-> Offset(0, NoValue), next |-> i + 5]
              ELSE [offset |-> Offset(blockIndex, o24 % 8388608), next |-> i + 5])
        ELSE [offset |-> Offset(0, o24), next |-> i + 3]

\* getBufferIdsFromStream at the i-th unread byte: the ids up to the 65535
\* that ends the list (none after a timeout) and the index after the list
RECURSIVE getBufferIdsFromStream(_, _)
getBufferIdsFromStream(rem, i) ==
    LET bufferId == readWord_t(rem, i)
        rest == getBufferIdsFromStream(rem, i + 2)
    IN  IF bufferId = NoValue THEN [ids |-> <<>>, next |-> i + 2, timeout |-> TRUE]
        ELSE IF bufferId = ReservedId
        THEN [ids |-> <<>>, next |-> i + 2, timeout |-> FALSE]
        ELSE [ids |-> IF rest.timeout THEN <<>> ELSE <<bufferId>> \o rest.ids,
              next |-> rest.next, timeout |-> rest.timeout]

\* variant of NormalizeOffset that stays in the block the offset names
NormalizeOffset_same_block(buffer, h, offset) ==
    IF /\ offset.blockIndex < Len(buffer)
       /\ offset.blockOffset >= Len(h[buffer[offset.blockIndex + 1]])
    THEN Offset(Len(buffer), 0)
    ELSE offset

\* the loop at the head of getBufferByte / setBufferByte: move on to the block
\* that holds the offset
RECURSIVE NormalizeOffset(_, _, _)
NormalizeOffset(buffer, h, offset) ==
    IF /\ offset.blockIndex < Len(buffer)
       /\ offset.blockOffset >= Len(h[buffer[offset.blockIndex + 1]])
    THEN NormalizeOffset(buffer, h,
             Offset(offset.blockIndex + 1,
                    offset.blockOffset - Len(h[buffer[offset.blockIndex + 1]])))
    ELSE offset

\* getBufferByte: [v, offset], v = -1 when the offset is not in the buffer
getBufferByte(buffer, h, offset, iterate) ==
    LET o == NormalizeOffset(buffer, h, offset)
    IN  IF o.blockIndex >= Len(buffer) THEN [v |-> NoValue, offset |-> o]
        ELSE [v |-> h[buffer[o.blockIndex + 1]][o.blockOffset + 1],
              offset |-> IF iterate THEN Offset(o.blockIndex, o.blockOffset + 1) ELSE o]

\* setBufferByte: [ok, h, offset]
setBufferByte(value, buffer, h, offset, iterate) ==
    LET o == NormalizeOffset(buffer, h, offset)
        a == buffer[o.blockIndex + 1]
    IN  IF o.blockIndex >= Len(buffer) THEN [ok |-> FALSE, h |-> h, offset |-> o]
        ELSE [ok |-> TRUE,
              h |-> [h EXCEPT ![a] = [@ EXCEPT ![o.blockOffset + 1] = value % 256]],
              offset |-> IF iterate THEN Offset(o.blockIndex, o.blockOffset + 1) ELSE o]

\* bitwise operations on bytes
RECURSIVE BitOp(_, _, _, _)
BitOp(f, a, b, n) ==
    IF n = 0 THEN 0
    ELSE 2 * BitOp(f, a \div 2, b \div 2, n - 1)
         + (CASE f = "and" -> (IF a % 2 = 1 /\ b % 2 = 1 THEN 1 ELSE 0)
              [] f = "or" -> (IF a % 2 = 1 \/ b % 2 = 1 THEN 1 ELSE 0)
              [] f = "xor" -> (IF a % 2 # b % 2 THEN 1 ELSE 0))

----------------------------------------------------------------------------
(* ADJUST.                                                                 *)

ADJUST_NOT == 0
ADJUST_NEG == 1
ADJUST_SET == 2
ADJUST_ADD == 3
ADJUST_ADD_CARRY == 4
ADJUST_AND == 5
ADJUST_OR == 6
ADJUST_XOR == 7
ADJUST_OP_MASK == 15
ADJUST_ADVANCED_OFFSETS == 16
ADJUST_BUFFER_VALUE == 32
ADJUST_MULTI_TARGET == 64
ADJUST_MULTI_OPERAND == 128

\* variant of AdjustValue whose add-with-carry drops the carry
AdjustValue_no_carry(op, sourceValue, operandValue, carryValue) ==
    LET sum == sourceValue + operandValue
    IN  CASE op = ADJUST_NOT -> [v |-> -sourceValue - 1, c |-> carryValue]
          [] op = ADJUST_NEG -> [v |-> -sourceValue, c |-> carryValue]
          [] op = ADJUST_SET -> [v |-> operandValue, c |-> carryValue]
          [] op = ADJUST_ADD -> [v |-> sourceValue + operandValue, c |-> carryValue]
          [] op = ADJUST_ADD_CARRY ->
                IF sum > 255 THEN [v |-> sum - 256, c |-> 1] ELSE [v |-> sum, c |-> 0]
          [] op = ADJUST_AND ->
                [v |-> BitOp("and", sourceValue, operandValue, 8), c |-> carryValue]
          [] op = ADJUST_OR ->
                [v |-> BitOp("or", sourceValue, operandValue, 8), c |-> carryValue]
          [] op = ADJUST_XOR ->
                [v |-> BitOp("xor", sourceValue, operandValue, 8), c |-> carryValue]
          [] OTHER -> [v |-> sourceValue, c |-> carryValue]

\* the switch of bufferAdjust: the new sourceValue and carryValue (ints, as
\* in the code: the value is cut to a byte only when it is stored)
AdjustValue(op, sourceValue, operandValue, carryValue) ==
    LET sum == sourceValue + operandValue + carryValue
    IN  CASE op = ADJUST_NOT -> [v |-> -sourceValue - 1, c |-> carryValue]
          [] op = ADJUST_NEG -> [v |-> -sourceValue, c |-> carryValue]
          [] op = ADJUST_SET -> [v |-> operandValue, c |-> carryValue]
          [] op = ADJUST_ADD -> [v |-> sourceValue + operandValue, c |-> carryValue]
          [] op = ADJUST_ADD_CARRY ->
                IF sum > 255 THEN [v |-> sum - 256, c |-> 1] ELSE [v |-> sum, c |-> 0]
          [] op = ADJUST_AND ->
                [v |-> BitOp("and", sourceValue, operandValue, 8), c |-> carryValue]
          [] op = ADJUST_OR ->
                [v |-> BitOp("or", sourceValue, operandValue, 8), c |-> carryValue]
          [] op = ADJUST_XOR ->
                [v |-> BitOp("xor", sourceValue, operandValue, 8), c |-> carryValue]
          [] OTHER -> [v |-> sourceValue, c |-> carryValue]

\* one iteration of the for loop of bufferAdjust, once its source value src
\* and its operand are known: the loop's variables after it (l.ok is FALSE
\* after an early return)
AdjustIteration(x, l, src, operandValue, r) ==
    LET put == setBufferByte(r.v, x.buffer, l.h, src.offset, TRUE)
        l1 == [l EXCEPT !.operandValue = operandValue, !.offset = src.offset,
                        !.sourceValue = src.v]
        l2 == [l1 EXCEPT !.sourceValue = r.v, !.carryValue = r.c]
        l3 == [l2 EXCEPT !.usingCarry = @ \/ x.op = ADJUST_ADD_CARRY]
    IN  IF src.v = NoValue \/ operandValue = NoValue THEN [l1 EXCEPT !.ok = FALSE]
        ELSE IF ~x.useMultiTarget THEN l3
        ELSE IF ~put.ok THEN [l2 EXCEPT !.ok = FALSE]
        ELSE [l3 EXCEPT !.h = put.h, !.offset = put.offset]

\* the operand of one iteration: [v, l] with the stream position or operand
\* offset moved on when the operand was read just now
AdjustOperand(x, l) ==
    LET opb == getBufferByte(x.operandBuffer, l.h, l.operandOffset, TRUE)
    IN  IF x.hasOperand /\ x.useMultiOperand /\ x.useBufferValue
        THEN [v |-> opb.v, l |-> [l EXCEPT !.operandOffset = opb.offset]]
        ELSE IF x.hasOperand /\ x.useMultiOperand
        THEN [v |-> readByte_t(RemOf(x.stk, x.inp, l.h), l.i),
              l |-> [l EXCEPT !.i = @ + 1]]
        ELSE [v |-> l.operandValue, l |-> l]

\* the source value of one iteration
AdjustSource(x, l) ==
    IF x.useMultiTarget THEN getBufferByte(x.buffer, l.h, l.offset, FALSE)
    ELSE [v |-> l.sourceValue, offset |-> l.offset]

\* the for loop of bufferAdjust, from iteration k.  x is the command (target
\* and operand buffers, flags, count, the streams); l the loop's variables:
\* heap, offsets, next unread stream byte, values.
RECURSIVE AdjustLoop(_, _, _)
AdjustLoop(x, l, k) ==
    IF k >= x.count \/ ~l.ok THEN l
    ELSE AdjustLoop(x,
             AdjustIteration(x, AdjustOperand(x, l).l, AdjustSource(x, l),
                 AdjustOperand(x, l).v,
                 AdjustValue(x.op, AdjustSource(x, l).v, AdjustOperand(x, l).v,
                             l.carryValue)),
             k + 1)

\* the arguments of bufferAdjust as read from the stream, the command byte
\* being the i0-th unread byte
AdjustCommand(rem, i0) ==
    LET command == readByte_t(rem, i0)
        op == command % (ADJUST_OP_MASK + 1)
    IN  [command |-> command,
         useAdvancedOffsets |-> Bit(command, ADJUST_ADVANCED_OFFSETS),
         fromBuffer |-> Bit(command, ADJUST_BUFFER_VALUE) /\ op > ADJUST_NEG,
         useMultiTarget |-> Bit(command, ADJUST_MULTI_TARGET),
         useMultiOperand |-> Bit(command, ADJUST_MULTI_OPERAND),
         multi |-> Bit(command, ADJUST_MULTI_TARGET) \/ Bit(command, ADJUST_MULTI_OPERAND),
         op |-> op,
         hasOperand |-> op > ADJUST_NEG]

\* offset and count: [offset, count, next]
AdjustTarget(c, rem, i) ==
    LET off == getOffsetFromStream(rem, i, c.useAdvancedOffsets)
    IN  [offset |-> off.offset,
         count |-> IF ~c.multi THEN 1
                   ELSE IF c.useAdvancedOffsets THEN read24_t(rem, off.next)
                   ELSE readWord_t(rem, off.next),
         next |-> IF ~c.multi THEN off.next
                  ELSE IF c.useAdvancedOffsets THEN off.next + 3 ELSE off.next + 2]

\* operand buffer and offset, when the operand comes from a buffer:
\* [bufferId, offset, next]
AdjustOperandBuffer(c, id, rem, i) ==
    LET raw == readWord_t(rem, i)
        off == getOffsetFromStream(rem, i + 2, c.useAdvancedOffsets)
    IN  IF ~c.fromBuffer THEN [bufferId |-> 0, offset |-> ZeroOffset, next |-> i]
        ELSE [bufferId |-> IF raw = NoValue THEN NoValue ELSE resolveBufferId(raw, id),
              offset |-> off.offset, next |-> off.next]

\* variant of AdjustStore that does not store the final carry
AdjustStore_no_carry(m, c, buffer, l, len) ==
    LET put1 == setBufferByte(l.sourceValue, buffer, l.h, l.offset, TRUE)
        h1 == IF c.useMultiTarget THEN l.h ELSE put1.h
        n == Min(l.i - 1, len)
    IN  IF ~l.ok THEN [m |-> [m EXCEPT !.h = l.h], n |-> n]
        ELSE IF ~c.useMultiTarget /\ ~put1.ok THEN [m |-> [m EXCEPT !.h = l.h], n |-> n]
        ELSE [m |-> [m EXCEPT !.h = h1], n |-> n]

\* variant of AdjustStore that undoes the command when the carry cannot be
\* stored
AdjustStore_rolls_back(m, c, buffer, l, len) ==
    LET put1 == setBufferByte(l.sourceValue, buffer, l.h, l.offset, TRUE)
        h1 == IF c.useMultiTarget THEN l.h ELSE put1.h
        o1 == IF c.useMultiTarget THEN l.offset ELSE put1.offset
        put2 == setBufferByte(l.carryValue, buffer, h1, o1, FALSE)
        n == Min(l.i - 1, len)
    IN  IF ~l.ok THEN [m |-> [m EXCEPT !.h = l.h], n |-> n]
        ELSE IF ~c.useMultiTarget /\ ~put1.ok THEN [m |-> [m EXCEPT !.h = l.h], n |-> n]
        ELSE IF l.usingCarry /\ put2.ok THEN [m |-> [m EXCEPT !.h = put2.h], n |-> n]
        ELSE IF l.usingCarry THEN [m |-> m, n |-> n]
        ELSE [m |-> [m EXCEPT !.h = h1], n |-> n]

\* bufferAdjust after the loop: the last byte and the carry are stored
AdjustStore(m, c, buffer, l, len) ==
    LET put1 == setBufferByte(l.sourceValue, buffer, l.h, l.offset, TRUE)
        h1 == IF c.useMultiTarget THEN l.h ELSE put1.h
        o1 == IF c.useMultiTarget THEN l.offset ELSE put1.offset
        put2 == setBufferByte(l.carryValue, buffer, h1, o1, FALSE)
        n == Min(l.i - 1, len)
    IN  IF ~l.ok THEN [m |-> [m EXCEPT !.h = l.h], n |-> n]
        ELSE IF ~c.useMultiTarget /\ ~put1.ok THEN [m |-> [m EXCEPT !.h = l.h], n |-> n]
        ELSE IF l.usingCarry /\ put2.ok THEN [m |-> [m EXCEPT !.h = put2.h], n |-> n]
        ELSE [m |-> [m EXCEPT !.h = h1], n |-> n]

\* bufferAdjust from the point where both buffers are known to exist: the
\* single source value and the single operand value are fetched, the loop runs
AdjustRun(m, stk, inp, c, t, o, bufferId, rem) ==
    LET buffer == m.b[bufferId]
        single == c.hasOperand /\ ~c.useMultiOperand
        src0 == IF ~c.useMultiTarget THEN getBufferByte(buffer, m.h, t.offset, FALSE)
                ELSE [v |-> 0, offset |-> t.offset]
        opb0 == getBufferByte(m.b[o.bufferId], m.h, o.offset, FALSE)
        x == [buffer |-> buffer,
              operandBuffer |-> IF c.fromBuffer THEN m.b[o.bufferId] ELSE <<>>,
              op |-> c.op, hasOperand |-> c.hasOperand, useBufferValue |-> c.fromBuffer,
              useMultiTarget |-> c.useMultiTarget, useMultiOperand |-> c.useMultiOperand,
              count |-> t.count, stk |-> stk, inp |-> inp]
        l0 == [h |-> m.h, offset |-> src0.offset,
               operandOffset |-> IF single /\ c.fromBuffer THEN opb0.offset ELSE o.offset,
               i |-> IF single /\ ~c.fromBuffer THEN o.next + 1 ELSE o.next,
               sourceValue |-> src0.v,
               operandValue |-> IF ~single THEN 0
                                ELSE IF c.fromBuffer THEN opb0.v
                                ELSE readByte_t(rem, o.next),
               carryValue |-> 0, usingCarry |-> FALSE, ok |-> TRUE]
    IN  AdjustStore(m, c, buffer, AdjustLoop(x, l0, 0), Len(rem))

\* bufferAdjust with its arguments decoded: the early returns
AdjustChecked(m, stk, inp, c, t, o, bufferId, rem) ==
    IF \/ c.fromBuffer /\ o.bufferId = NoValue
       \/ c.fromBuffer /\ o.bufferId \notin DOMAIN m.b
       \/ bufferId = NoValue
       \/ bufferId \notin DOMAIN m.b
       \/ t.count = NoValue
       \/ t.offset.blockOffset = NoValue
       \/ o.offset.blockOffset = NoValue
    THEN [m |-> m, n |-> Min(o.next - 1, Len(rem))]
    ELSE AdjustRun(m, stk, inp, c, t, o, bufferId, rem)

AdjustDecoded(m, stk, inp, c, t, adjustBufferId, rem) ==
    AdjustChecked(m, stk, inp, c, t,
                  AdjustOperandBuffer(c, CurId(stk), rem, t.next),
                  resolveBufferId(adjustBufferId, CurId(stk)), rem)

\* bufferAdjust, run by the interpreter whose streams are stk and inp, with
\* the command byte at the i0-th unread byte: [m, n], n the bytes read
bufferAdjust(m, stk, inp, adjustBufferId, i0) ==
    IF readByte_t(RemOf(stk, inp, m.h), i0) = NoValue
    THEN [m |-> m, n |-> Len(RemOf(stk, inp, m.h))]
    ELSE AdjustDecoded(m, stk, inp, AdjustCommand(RemOf(stk, inp, m.h), i0),
                       AdjustTarget(AdjustCommand(RemOf(stk, inp, m.h), i0),
                                    RemOf(stk, inp, m.h), i0 + 1),
                       adjustBufferId, RemOf(stk, inp, m.h))

----------------------------------------------------------------------------
(* Conditionals.                                                           *)

COND_EXISTS == 0
COND_NOT_EXISTS == 1
COND_EQUAL == 2
COND_NOT_EQUAL == 3
COND_LESS == 4
COND_GREATER == 5
COND_LESS_EQUAL == 6
COND_GREATER_EQUAL == 7
COND_AND == 8
COND_OR == 9
COND_OP_MASK == 15
COND_ADVANCED_OFFSETS == 16
COND_BUFFER_VALUE == 32

\* the switch of bufferConditional
shouldCall(op, sourceValue, operandValue) ==
    CASE op = COND_EXISTS -> sourceValue # 0
      [] op = COND_NOT_EXISTS -> sourceValue = 0
      [] op = COND_EQUAL -> sourceValue = operandValue
      [] op = COND_NOT_EQUAL -> sourceValue # operandValue
      [] op = COND_LESS -> sourceValue < operandValue
      [] op = COND_GREATER -> sourceValue > operandValue
      [] op = COND_LESS_EQUAL -> sourceValue <= operandValue
      [] op = COND_GREATER_EQUAL -> sourceValue >= operandValue
      [] op = COND_AND -> sourceValue # 0 /\ operandValue # 0
      [] op = COND_OR -> sourceValue # 0 \/ operandValue # 0
      [] OTHER -> FALSE

\* variant of bufferConditional that compares values it could not read
bufferConditional_unread(m, id, rem, i0) ==
    LET command == readByte_t(rem, i0)
        rawCheck == readWord_t(rem, i0 + 1)
        checkBufferId == IF rawCheck = NoValue THEN NoValue
                         ELSE resolveBufferId(rawCheck, id)
        useAdvancedOffsets == Bit(command, COND_ADVANCED_OFFSETS)
        useBufferValue == Bit(command, COND_BUFFER_VALUE)
        op == command % (COND_OP_MASK + 1)
        hasOperand == op > COND_NOT_EXISTS
        off == getOffsetFromStream(rem, i0 + 3, useAdvancedOffsets)
        fromBuffer == useBufferValue /\ hasOperand
        rawOperand == readWord_t(rem, off.next)
        operandBufferId == IF ~fromBuffer THEN 0
                           ELSE IF rawOperand = NoValue THEN NoValue
                           ELSE resolveBufferId(rawOperand, id)
        opOff == IF fromBuffer
                 THEN getOffsetFromStream(rem, off.next + 2, useAdvancedOffsets)
                 ELSE [offset |-> ZeroOffset, next |-> off.next]
        i2 == opOff.next
        sourceValue == getBufferByte(m.b[checkBufferId], m.h, off.offset, FALSE).v
        operandValue ==
            IF ~hasOperand THEN 0
            ELSE IF fromBuffer
            THEN getBufferByte(m.b[operandBufferId], m.h, opOff.offset, FALSE).v
            ELSE readByte_t(rem, i2)
        i3 == IF hasOperand /\ ~fromBuffer THEN i2 + 1 ELSE i2
    IN  IF command = NoValue THEN [result |-> FALSE, next |-> i2]
        ELSE IF fromBuffer /\ operandBufferId = NoValue
        THEN [result |-> FALSE, next |-> i2]
        ELSE IF fromBuffer /\ operandBufferId \notin DOMAIN m.b
        THEN [result |-> FALSE, next |-> i2]
        ELSE IF \/ checkBufferId = NoValue
                \/ off.offset.blockOffset = NoValue
                \/ opOff.offset.blockOffset = NoValue
        THEN [result |-> FALSE, next |-> i2]
        ELSE IF checkBufferId \notin DOMAIN m.b THEN [result |-> FALSE, next |-> i2]
        ELSE [result |-> shouldCall(op, sourceValue, operandValue), next |-> i3]

\* bufferConditional, run by the interpreter with id `id`, the command byte
\* at the i0-th unread byte: [result, next], next the index of the first
\* byte it has not read
bufferConditional(m, id, rem, i0) ==
    LET command == readByte_t(rem, i0)
        rawCheck == readWord_t(rem, i0 + 1)
        checkBufferId == IF rawCheck = NoValue THEN NoValue
                         ELSE resolveBufferId(rawCheck, id)
        useAdvancedOffsets == Bit(command, COND_ADVANCED_OFFSETS)
        useBufferValue == Bit(command, COND_BUFFER_VALUE)
        op == command % (COND_OP_MASK + 1)
        hasOperand == op > COND_NOT_EXISTS
        off == getOffsetFromStream(rem, i0 + 3, useAdvancedOffsets)
        fromBuffer == useBufferValue /\ hasOperand
        rawOperand == readWord_t(rem, off.next)
        operandBufferId == IF ~fromBuffer THEN 0
                           ELSE IF rawOperand = NoValue THEN NoValue
                           ELSE resolveBufferId(rawOperand, id)
        opOff == IF fromBuffer
                 THEN getOffsetFromStream(rem, off.next + 2, useAdvancedOffsets)
                 ELSE [offset |-> ZeroOffset, next |-> off.next]
        i2 == opOff.next
        sourceValue == getBufferByte(m.b[checkBufferId], m.h, off.offset, FALSE).v
        operandValue ==
            IF ~hasOperand THEN 0
            ELSE IF fromBuffer
            THEN getBufferByte(m.b[operandBufferId], m.h, opOff.offset, FALSE).v
            ELSE readByte_t(rem, i2)
        i3 == IF hasOperand /\ ~fromBuffer THEN i2 + 1 ELSE i2
    IN  IF command = NoValue THEN [result |-> FALSE, next |-> i2]
        ELSE IF fromBuffer /\ operandBufferId = NoValue
        THEN [result |-> FALSE, next |-> i2]
        ELSE IF fromBuffer /\ operandBufferId \notin DOMAIN m.b
        THEN [result |-> FALSE, next |-> i2]
        ELSE IF \/ checkBufferId = NoValue
                \/ off.offset.blockOffset = NoValue
                \/ opOff.offset.blockOffset = NoValue
        THEN [result |-> FALSE, next |-> i2]
        ELSE IF checkBufferId \notin DOMAIN m.b THEN [result |-> FALSE, next |-> i2]
        ELSE IF sourceValue = NoValue \/ operandValue = NoValue
        THEN [result |-> FALSE, next |-> i3]
        ELSE [result |-> shouldCall(op, sourceValue, operandValue), next |-> i3]

----------------------------------------------------------------------------
(* REVERSE.                                                                *)

REVERSE_16BIT == 1
REVERSE_32BIT == 2
REVERSE_SIZE == 3
REVERSE_CHUNKED == 4
REVERSE_BLOCK == 8

\* variant of reverseValues that moves every value one place on
reverseValues_rotate(data, valueSize) ==
    LET count == Len(data) \div valueSize
    IN  [i \in 1..Len(data) |->
            IF i > count * valueSize THEN data[i]
            ELSE data[((i - 1 + valueSize) % (count * valueSize)) + 1]]

\* reverseValues: the order of the valueSize-byte values of data reversed
reverseValues(data, valueSize) ==
    LET count == Len(data) \div valueSize
    IN  [i \in 1..Len(data) |->
            IF i > count * valueSize THEN data[i]
            ELSE data[(count - 1 - ((i - 1) \div valueSize)) * valueSize
                      + ((i - 1) % valueSize) + 1]]

\* one block reversed: as a whole, or chunk by chunk
ReverseBlock(data, valueSize, chunkSize) ==
    IF chunkSize = 0 THEN reverseValues(data, valueSize)
    ELSE [i \in 1..Len(data) |->
             IF i > (Len(data) \div chunkSize) * chunkSize THEN data[i]
             ELSE reverseValues(
                      SubSeq(data, ((i - 1) \div chunkSize) * chunkSize + 1,
                             ((i - 1) \div chunkSize) * chunkSize + chunkSize),
                      valueSize)[((i - 1) % chunkSize) + 1]]

\* the second loop of bufferReverse: block after block, in place
RECURSIVE ReverseEach(_, _, _, _)
ReverseEach(h, blocks, valueSize, chunkSize) ==
    IF blocks = <<>> THEN h
    ELSE ReverseEach(
             [h EXCEPT ![Head(blocks)] = ReverseBlock(@, valueSize, chunkSize)],
             Tail(blocks), valueSize, chunkSize)

\* bufferReverse, the options byte read, its arguments starting at the i-th
\* unread byte: [m, next, undefined].  With a value size of 0 the first
\* loop computes size % 0 for the first block, which is undefined: the
\* record then says so and the caller chooses what follows.
bufferReverse(m, bufferId, options, rem, i) ==
    LET buffer == m.b[bufferId]
        use16Bit == Bit(options, REVERSE_16BIT)
        use32Bit == Bit(options, REVERSE_32BIT)
        useSize == use16Bit /\ use32Bit
        useChunks == Bit(options, REVERSE_CHUNKED)
        reverseBlocks == Bit(options, REVERSE_BLOCK)
        valueSize == IF useSize THEN readWord_t(rem, i)
                     ELSE IF use32Bit THEN 4
                     ELSE IF use16Bit THEN 2
                     ELSE 1
        i1 == IF useSize THEN i + 2 ELSE i
        chunkSize == IF useChunks THEN readWord_t(rem, i1) ELSE 0
        i2 == IF useChunks THEN i1 + 2 ELSE i1
        fits == \A k \in DOMAIN buffer :
                    /\ Len(m.h[buffer[k]]) % valueSize = 0
                    /\ chunkSize = 0 \/ Len(m.h[buffer[k]]) % chunkSize = 0
        h1 == ReverseEach(m.h, buffer, valueSize, chunkSize)
    IN  IF bufferId \notin DOMAIN m.b
        THEN [m |-> m, next |-> i, undefined |-> FALSE]
        ELSE IF valueSize = NoValue
        THEN [m |-> m, next |-> i1, undefined |-> FALSE]
        ELSE IF chunkSize = NoValue
        THEN [m |-> m, next |-> i2, undefined |-> FALSE]
        ELSE IF valueSize = 0
        THEN [m |-> m, next |-> i2, undefined |-> buffer # <<>>]
        ELSE IF ~fits THEN [m |-> m, next |-> i2, undefined |-> FALSE]
        ELSE [m |-> [m EXCEPT !.h = h1,
                              !.b = IF reverseBlocks
                                    THEN MapPut(m.b, bufferId, Reverse(buffer))
                                    ELSE m.b],
              next |-> i2, undefined |-> FALSE]

----------------------------------------------------------------------------
(* CALL and JUMP.  Both work on the stack of nested interpreters; the      *)
(* caller has already read the command's bytes.                            *)

\* a new MultiBufferStream over the blocks now stored at bufferId, sought to
\* the offset when one is given
NewStream(m, bufferId, offset) ==
    [blocks |-> m.b[bufferId],
     pos |-> IF offset.blockOffset # 0 \/ offset.blockIndex # 0
             THEN seekTo(m.b[bufferId], m.h, offset.blockOffset, offset.blockIndex)
             ELSE 0]

\* the output stream of the innermost interpreter of stk
OutOf(stk) == IF stk = <<>> THEN outputStream ELSE stk[Len(stk)].outputStream

\* VDUStreamProcessor(inputStream, outputStream, bufferId): a new interpreter
Processor(inputStream, out, bufferId) ==
    [id |-> bufferId, src |-> bufferId,
     blocks |-> inputStream.blocks, pos |-> inputStream.pos,
     outputStream |-> out, originalOutputStream |-> out]

RECURSIVE bufferCall(_, _, _, _)
RECURSIVE bufferJump(_, _, _, _)

\* variant of bufferJump without the top-level case: the jump of the
\* top-level interpreter is dropped
bufferJump_not_at_top(m, stk, bufferId, offset) ==
    IF stk = <<>> THEN stk
    ELSE IF bufferId = ReservedId \/ bufferId = CurId(stk)
    THEN [stk EXCEPT ![Len(stk)].pos =
             seekTo(stk[Len(stk)].blocks, m.h, offset.blockOffset, offset.blockIndex)]
    ELSE IF bufferId \notin DOMAIN m.b THEN stk
    ELSE [stk EXCEPT ![Len(stk)].blocks = NewStream(m, bufferId, offset).blocks,
                     ![Len(stk)].pos = NewStream(m, bufferId, offset).pos,
                     ![Len(stk)].src = bufferId]

\* variant of bufferCall whose nested interpreter writes to the serial port
bufferCall_serial(m, stk, callBufferId, offset) ==
    LET id == CurId(stk)
        bufferId == resolveBufferId(callBufferId, id)
    IN  IF bufferId = NoValue THEN stk
        ELSE IF bufferId \notin DOMAIN m.b THEN stk
        ELSE IF id # ReservedId /\ Available(stk, <<>>, m.h) = 0
        THEN bufferJump(m, stk, bufferId, offset)
        ELSE Append(stk, Processor(NewStream(m, bufferId, offset),
                                   SerialOutput, bufferId))

\* variant of bufferCall without the tail-call optimisation
bufferCall_nested(m, stk, callBufferId, offset) ==
    LET bufferId == resolveBufferId(callBufferId, CurId(stk))
    IN  IF bufferId = NoValue THEN stk
        ELSE IF bufferId \notin DOMAIN m.b THEN stk
        ELSE Append(stk, Processor(NewStream(m, bufferId, offset),
                                   OutOf(stk), bufferId))

\* bufferCall: the stack after the call has been set up
bufferCall(m, stk, callBufferId, offset) ==
    LET id == CurId(stk)
        bufferId == resolveBufferId(callBufferId, id)
    IN  IF bufferId = NoValue THEN stk
        ELSE IF bufferId \notin DOMAIN m.b THEN stk
        ELSE IF id # ReservedId /\ Available(stk, <<>>, m.h) = 0
        THEN bufferJump(m, stk, bufferId, offset)
        ELSE Append(stk, Processor(NewStream(m, bufferId, offset),
                                   OutOf(stk), bufferId))

\* bufferJump: the stack after the jump
bufferJump(m, stk, bufferId, offset) ==
    LET id == CurId(stk)
        top == Len(stk)
    IN  IF id = ReservedId THEN bufferCall(m, stk, bufferId, offset)
        ELSE IF bufferId = ReservedId \/ bufferId = id
        THEN [stk EXCEPT ![top].pos =
                 seekTo(stk[top].blocks, m.h, offset.blockOffset, offset.blockIndex)]
        ELSE IF bufferId \notin DOMAIN m.b THEN stk
        ELSE [stk EXCEPT ![top].blocks = NewStream(m, bufferId, offset).blocks,
                         ![top].pos = NewStream(m, bufferId, offset).pos,
                         ![top].src = bufferId]

\* variant of JumpOffset without the "jump to end" case
JumpOffset_zero(bufferId) == Offset(0, 0)

\* the offset a plain JUMP / COND_JUMP passes: "jump to end" for 65535
JumpOffset(bufferId) ==
    Offset(IF bufferId = ReservedId THEN BlockIndexMax ELSE 0, 0)

----------------------------------------------------------------------------
(* Decoding of the command at the head of the running input stream.        *)

IsPrefix(rem, sub) ==
    /\ Len(rem) >= 3
    /\ rem[1] = VDU_SYS /\ rem[2] = VDU_SYS_VDP /\ rem[3] = sub

\* a buffered command with its bufferId and command byte readable
IsBufferedCmd(rem) == IsPrefix(rem, VDP_BUFFERED) /\ Len(rem) >= 6

CmdId(rem) == readWord_t(rem, 4)

CmdOp(rem) == readByte_t(rem, 6)

Decoding(c) == IsBufferedCmd(Rem) /\ CmdOp(Rem) = c

\* index of the first argument byte of a buffered command
ArgAt == 7

----------------------------------------------------------------------------
(* History of the latest step.                                             *)

\* buffer whose blocks the running interpreter reads
CurSrc(stk) == IF stk = <<>> THEN ReservedId ELSE stk[Len(stk)].src

\* packets is what the step has sent back to the host, short whether an
\* audio command has failed to read its payload
Step(op, id, ret, arg) ==
    [op |-> op, id |-> id, cur |-> CurId(stack), src |-> CurSrc(stack),
     depth |-> Len(stack), ret |-> ret, arg |-> arg, packets |-> <<>>,
     short |-> FALSE]

Done(op, ret, arg) == Step(op, CmdId(Rem), ret, arg)

NoArg == <<>>

\* the stores, streams and channels as they are: the history kept in pre
Before ==
    [buffers |-> buffers, heap |-> heap, samples |-> samples, stack |-> stack,
     input |-> input, outputStream |-> outputStream,
     audioChannels |-> audioChannels]

\* one command has executed: the stores become m, the streams stk and inp,
\* the top-level output stream out, the audio channels ch
CommitAll(m, stk, inp, out, ch, lst) ==
    /\ buffers' = m.b
    /\ samples' = m.s
    /\ heap' = Collect(m.h, m.b, m.s, stk, out)
    /\ Cardinality(DOMAIN heap') <= MaxBlocks
    /\ stack' = stk
    /\ Len(stk) <= MaxDepth
    /\ input' = inp
    /\ outputStream' = out
    /\ audioChannels' = ch
    /\ last' = lst
    /\ pre' = Before
    /\ UNCHANGED fed

\* the same for a command that leaves the audio channels alone
CommitOut(m, stk, inp, out, lst) == CommitAll(m, stk, inp, out, audioChannels, lst)

\* the same for a command that leaves the top-level output stream alone
Commit(m, stk, inp, lst) == CommitOut(m, stk, inp, outputStream, lst)

\* a command that reads n bytes and leaves the streams otherwise alone
CommitRead(m, n, lst) == Commit(m, StackAfter(n), InputAfter(n), lst)

----------------------------------------------------------------------------
(* The interpreter: one action per command of vdu_sys_buffered.            *)

\* the host sends one transmission (the bytes of one or more commands) on
\* the serial input
Feed(cat, max) ==
    /\ stack = <<>>
    /\ input = <<>>
    /\ fed < max
    /\ \E c \in cat : input' = c
    /\ fed' = fed + 1
    /\ last' = Step("FEED", 0, 0, NoArg)
    /\ pre' = Before
    /\ UNCHANGED <<buffers, heap, samples, stack, outputStream, audioChannels>>

\* processAllAvailable of a nested interpreter ends: the caller goes on
Return ==
    /\ stack # <<>>
    /\ Rem = <<>>
    /\ Commit(Now, SubSeq(stack, 1, Len(stack) - 1), input,
              Step("RETURN", CurId(stack), 0, NoArg))

\* a byte that starts no buffered or audio command: another VDU command,
\* which does not touch the stores
vdu_other ==
    /\ Rem # <<>>
    /\ ~IsPrefix(Rem, VDP_BUFFERED)
    /\ ~IsPrefix(Rem, VDP_AUDIO)
    /\ CommitRead(Now, 1, Step("OTHER", 0, 0, NoArg))

\* vdu_sys_buffered: the stream ends before bufferId and command are read
BufferedShort ==
    /\ IsPrefix(Rem, VDP_BUFFERED)
    /\ Len(Rem) < 6
    /\ CommitRead(Now, Len(Rem), Step("SHORT", 0, NoValue, NoArg))

\* BUFFERED_WRITE
BufferedWrite ==
    /\ Decoding(BUFFERED_WRITE)
    /\ LET length == readWord_t(Rem, ArgAt)
           src == Drop(Rem, ArgAt + 1)
           r == bufferWrite(Now, CmdId(Rem), length, src)
       IN  IF length = NoValue
           THEN CommitRead(Now, Len(Rem),
                           Done("WRITE", NoValue, [length |-> NoValue, data |-> <<>>]))
           ELSE CommitRead(r.m, ArgAt + 1 + r.n,
                           Done("WRITE", r.ret,
                                [length |-> length, data |-> Take(src, length)]))

\* a call or jump command that has read n bytes: `taken` says whether the
\* condition (if any) allowed it
Transfer(op, kind, n, taken, offset) ==
    LET stk == StackAfter(n)
    IN  Commit(Now,
               IF ~taken THEN stk
               ELSE IF kind = "call" THEN bufferCall(Now, stk, CmdId(Rem), offset)
               ELSE bufferJump(Now, stk, CmdId(Rem), offset),
               InputAfter(n),
               Done(op, 0, [offset |-> offset, taken |-> taken,
                            tail |-> Len(Rem) <= n, bytes |-> Take(Rem, n)]))

\* the condition of a COND_ command whose arguments start at the i-th byte
Cond(i) == bufferConditional(Now, CurId(stack), Rem, i)

\* BUFFERED_CALL
BufferedCall ==
    /\ Decoding(BUFFERED_CALL)
    /\ Transfer("CALL", "call", 6, TRUE, ZeroOffset)

\* BUFFERED_CLEAR
BufferedClear ==
    /\ Decoding(BUFFERED_CLEAR)
    /\ CommitRead(bufferClear(Now, CmdId(Rem)), 6, Done("CLEAR", 0, NoArg))

\* BUFFERED_CREATE
BufferedCreate ==
    /\ Decoding(BUFFERED_CREATE)
    /\ LET size == readWord_t(Rem, ArgAt)
           r == bufferCreate(Now, CmdId(Rem), size)
       IN  IF size = NoValue
           THEN CommitRead(Now, Len(Rem), Done("CREATE", NoValue, NoArg))
           ELSE CommitRead(r.m, 8, Done("CREATE", IF r.ok THEN 1 ELSE 0,
                                        [size |-> size]))

\* setOutputStream: the interpreter's output stream after the command,
\* out and original being its outputStream and originalOutputStream, and
\* isWritable the answer of the buffer's front block
setOutputStream(m, out, original, bufferId, isWritable) ==
    IF bufferId = ReservedId THEN NoOutput
    ELSE IF bufferId = 0 THEN original
    ELSE IF bufferId \notin DOMAIN m.b THEN out
    ELSE IF m.b[bufferId] = <<>> THEN out
    ELSE IF isWritable THEN m.b[bufferId][1]
    ELSE out

\* BUFFERED_SET_OUTPUT: redirects the output of the interpreter that reads
\* the command; the stores are not changed
BufferedSetOutput ==
    /\ Decoding(BUFFERED_SET_OUTPUT)
    /\ \E isWritable \in BOOLEAN :
           IF stack = <<>>
           THEN CommitOut(Now, stack, InputAfter(6),
                          setOutputStream(Now, outputStream, SerialOutput,
                                          CmdId(Rem), isWritable),
                          Done("SET_OUTPUT", 0, NoArg))
           ELSE Commit(Now,
                       [StackAfter(6) EXCEPT ![Len(stack)].outputStream =
                           setOutputStream(Now, @,
                                           stack[Len(stack)].originalOutputStream,
                                           CmdId(Rem), isWritable)],
                       input, Done("SET_OUTPUT", 0, NoArg))

\* BUFFERED_ADJUST
BufferedAdjust ==
    /\ Decoding(BUFFERED_ADJUST)
    /\ LET r == bufferAdjust(Now, stack, input, CmdId(Rem), ArgAt)
       IN  CommitRead(r.m, r.n, Done("ADJUST", 0, [n |-> r.n, bytes |-> Take(Rem, r.n)]))

\* BUFFERED_COND_CALL
BufferedCondCall ==
    /\ Decoding(BUFFERED_COND_CALL)
    /\ Transfer("COND_CALL", "call", Cond(ArgAt).next - 1, Cond(ArgAt).result,
                ZeroOffset)

\* BUFFERED_JUMP
BufferedJump ==
    /\ Decoding(BUFFERED_JUMP)
    /\ Transfer("JUMP", "jump", 6, TRUE, JumpOffset(CmdId(Rem)))

\* BUFFERED_COND_JUMP
BufferedCondJump ==
    /\ Decoding(BUFFERED_COND_JUMP)
    /\ Transfer("COND_JUMP", "jump", Cond(ArgAt).next - 1, Cond(ArgAt).result,
                JumpOffset(CmdId(Rem)))

\* the four OFFSET_ commands: the offset comes first; nothing happens when
\* it cannot be read
OffsetTransfer(op, kind, conditional) ==
    LET o == getOffsetFromStream(Rem, ArgAt, TRUE)
        c == Cond(o.next)
    IN  IF o.offset.blockOffset = NoValue
        THEN CommitRead(Now, Len(Rem),
                        Done(op, NoValue, [offset |-> ZeroOffset, taken |-> FALSE,
                                           tail |-> TRUE, bytes |-> Rem]))
        ELSE IF conditional
        THEN Transfer(op, kind, c.next - 1, c.result, o.offset)
        ELSE Transfer(op, kind, o.next - 1, TRUE, o.offset)

\* BUFFERED_OFFSET_JUMP
BufferedOffsetJump ==
    /\ Decoding(BUFFERED_OFFSET_JUMP)
    /\ OffsetTransfer("OFFSET_JUMP", "jump", FALSE)

\* BUFFERED_OFFSET_COND_JUMP
BufferedOffsetCondJump ==
    /\ Decoding(BUFFERED_OFFSET_COND_JUMP)
    /\ OffsetTransfer("OFFSET_COND_JUMP", "jump", TRUE)

\* BUFFERED_OFFSET_CALL
BufferedOffsetCall ==
    /\ Decoding(BUFFERED_OFFSET_CALL)
    /\ OffsetTransfer("OFFSET_CALL", "call", FALSE)

\* BUFFERED_OFFSET_COND_CALL
BufferedOffsetCondCall ==
    /\ Decoding(BUFFERED_OFFSET_COND_CALL)
    /\ OffsetTransfer("OFFSET_COND_CALL", "call", TRUE)

\* a command whose arguments are a 65535-terminated list of buffer ids
\* starting at the i-th byte: nothing happens when the list is empty or cut
\* short.  F(ids) is the store after the command.
ListCommand(op, i, F(_)) ==
    LET l == getBufferIdsFromStream(Rem, i)
    IN  IF l.ids = <<>>
        THEN CommitRead(Now, l.next - 1, Done(op, NoValue, [ids |-> l.ids]))
        ELSE CommitRead(F(l.ids), l.next - 1, Done(op, 0, [ids |-> l.ids]))

\* BUFFERED_COPY
BufferedCopy ==
    /\ Decoding(BUFFERED_COPY)
    /\ LET F(ids) == bufferCopy(Now, CmdId(Rem), ids)
       IN  ListCommand("COPY", ArgAt, F)

\* BUFFERED_CONSOLIDATE
BufferedConsolidate ==
    /\ Decoding(BUFFERED_CONSOLIDATE)
    /\ CommitRead(bufferConsolidate(Now, CmdId(Rem)), 6,
                  Done("CONSOLIDATE", 0, NoArg))

\* BUFFERED_SPLIT
BufferedSplit ==
    /\ Decoding(BUFFERED_SPLIT)
    /\ LET length == readWord_t(Rem, ArgAt)
       IN  IF length = NoValue
           THEN CommitRead(Now, Len(Rem), Done("SPLIT", NoValue, NoArg))
           ELSE CommitRead(bufferSplitInto(Now, CmdId(Rem), length,
                                           <<CmdId(Rem)>>, FALSE),
                           8, Done("SPLIT", 0, [length |-> length]))

\* BUFFERED_SPLIT_INTO
BufferedSplitInto ==
    /\ Decoding(BUFFERED_SPLIT_INTO)
    /\ LET length == readWord_t(Rem, ArgAt)
           F(ids) == bufferSplitInto(Now, CmdId(Rem), length, ids, FALSE)
       IN  IF length = NoValue
           THEN CommitRead(Now, Len(Rem), Done("SPLIT_INTO", NoValue, [ids |-> <<>>]))
           ELSE ListCommand("SPLIT_INTO", ArgAt + 2, F)

\* BUFFERED_SPLIT_FROM
BufferedSplitFrom ==
    /\ Decoding(BUFFERED_SPLIT_FROM)
    /\ LET length == readWord_t(Rem, ArgAt)
           targetStart == readWord_t(Rem, ArgAt + 2)
       IN  IF length = NoValue \/ targetStart = NoValue
           THEN CommitRead(Now, Len(Rem),
                           Done("SPLIT_FROM", NoValue, [targetStart |-> NoValue]))
           ELSE IF targetStart = ReservedId
           THEN CommitRead(Now, 10, Done("SPLIT_FROM", NoValue,
                                         [targetStart |-> targetStart]))
           ELSE CommitRead(bufferSplitInto(Now, CmdId(Rem), length,
                                           <<targetStart>>, TRUE),
                           10, Done("SPLIT_FROM", 0, [targetStart |-> targetStart]))

\* BUFFERED_SPLIT_BY
BufferedSplitBy ==
    /\ Decoding(BUFFERED_SPLIT_BY)
    /\ LET width == readWord_t(Rem, ArgAt)
           chunks == readWord_t(Rem, ArgAt + 2)
       IN  IF width = NoValue \/ chunks = NoValue
           THEN CommitRead(Now, Len(Rem), Done("SPLIT_BY", NoValue, NoArg))
           ELSE /\ chunks >= 1
                /\ CommitRead(bufferSplitByInto(Now, CmdId(Rem), width, chunks,
                                                <<CmdId(Rem)>>, FALSE),
                              10, Done("SPLIT_BY", 0,
                                       [width |-> width, chunks |-> chunks]))

\* BUFFERED_SPLIT_BY_INTO
BufferedSplitByInto ==
    /\ Decoding(BUFFERED_SPLIT_BY_INTO)
    /\ LET width == readWord_t(Rem, ArgAt)
           F(ids) == bufferSplitByInto(Now, CmdId(Rem), width, Len(ids), ids, FALSE)
       IN  IF width = NoValue
           THEN CommitRead(Now, Len(Rem), Done("SPLIT_BY_INTO", NoValue, [ids |-> <<>>]))
           ELSE ListCommand("SPLIT_BY_INTO", ArgAt + 2, F)

\* BUFFERED_SPLIT_BY_FROM
BufferedSplitByFrom ==
    /\ Decoding(BUFFERED_SPLIT_BY_FROM)
    /\ LET width == readWord_t(Rem, ArgAt)
           chunks == readWord_t(Rem, ArgAt + 2)
           targetStart == readWord_t(Rem, ArgAt + 4)
       IN  IF width = NoValue \/ chunks = NoValue \/ targetStart = NoValue
           THEN CommitRead(Now, Len(Rem),
                           Done("SPLIT_BY_FROM", NoValue, [targetStart |-> NoValue]))
           ELSE IF targetStart = ReservedId
           THEN CommitRead(Now, 12, Done("SPLIT_BY_FROM", NoValue,
                                         [targetStart |-> targetStart]))
           ELSE /\ chunks >= 1
                /\ CommitRead(bufferSplitByInto(Now, CmdId(Rem), width, chunks,
                                                <<targetStart>>, TRUE),
                              12, Done("SPLIT_BY_FROM", 0,
                                       [targetStart |-> targetStart]))

\* BUFFERED_SPREAD_INTO
BufferedSpreadInto ==
    /\ Decoding(BUFFERED_SPREAD_INTO)
    /\ LET F(ids) == bufferSpreadInto(Now, CmdId(Rem), ids, FALSE)
       IN  ListCommand("SPREAD_INTO", ArgAt, F)

\* BUFFERED_SPREAD_FROM
BufferedSpreadFrom ==
    /\ Decoding(BUFFERED_SPREAD_FROM)
    /\ LET targetStart == readWord_t(Rem, ArgAt)
       IN  IF targetStart = NoValue
           THEN CommitRead(Now, Len(Rem),
                           Done("SPREAD_FROM", NoValue, [targetStart |-> NoValue]))
           ELSE IF targetStart = ReservedId
           THEN CommitRead(Now, 8, Done("SPREAD_FROM", NoValue,
                                        [targetStart |-> targetStart]))
           ELSE CommitRead(bufferSpreadInto(Now, CmdId(Rem), <<targetStart>>, TRUE),
                           8, Done("SPREAD_FROM", 0, [targetStart |-> targetStart]))

\* BUFFERED_REVERSE_BLOCKS
BufferedReverseBlocks ==
    /\ Decoding(BUFFERED_REVERSE_BLOCKS)
    /\ CommitRead(bufferReverseBlocks(Now, CmdId(Rem)), 6,
                  Done("REVERSE_BLOCKS", 0, NoArg))

\* what the build can do with the undefined division of bufferReverse: the
\* remainder has some value and the command returns without a change, or
\* the processor traps and the program starts again with empty stores
ReverseOutcomes(undefined) ==
    IF undefined THEN {"returns", "restarts"} ELSE {"returns"}

\* history of a REVERSE: its options, the bytes it read, how it ended
ReverseArg(options, n, outcome) ==
    [options |-> options, bytes |-> Take(Rem, n), outcome |-> outcome]

\* BUFFERED_REVERSE
BufferedReverse ==
    /\ Decoding(BUFFERED_REVERSE)
    /\ LET options == readByte_t(Rem, ArgAt)
           r == bufferReverse(Now, CmdId(Rem), options, Rem, ArgAt + 1)
       IN  IF options = NoValue
           THEN CommitRead(Now, Len(Rem),
                           Done("REVERSE", NoValue,
                                ReverseArg(NoValue, Len(Rem), "returns")))
           ELSE \E outcome \in ReverseOutcomes(r.undefined) :
                    IF outcome = "restarts"
                    THEN CommitAll(Store(EmptyMap, EmptyMap, EmptyMap), <<>>, <<>>,
                                   SerialOutput, NoChannels,
                                   Done("REVERSE", NoValue,
                                     ReverseArg(options, r.next - 1, outcome)))
                    ELSE CommitRead(r.m, r.next - 1,
                                    Done("REVERSE", 0,
                                         ReverseArg(options, r.next - 1, outcome)))

\* BUFFERED_COPY_REF
BufferedCopyRef ==
    /\ Decoding(BUFFERED_COPY_REF)
    /\ LET F(ids) == bufferCopyRef(Now, CmdId(Rem), ids)
       IN  ListCommand("COPY_REF", ArgAt, F)

\* BUFFERED_COPY_AND_CONSOLIDATE
BufferedCopyAndConsolidate ==
    /\ Decoding(BUFFERED_COPY_AND_CONSOLIDATE)
    /\ LET F(ids) == bufferCopyAndConsolidate(Now, CmdId(Rem), ids)
       IN  ListCommand("COPY_AND_CONSOLIDATE", ArgAt, F)

\* BUFFERED_DEBUG_INFO
BufferedDebugInfo ==
    /\ Decoding(BUFFERED_DEBUG_INFO)
    /\ CommitRead(bufferDebugInfo(Now, CmdId(Rem)), 6, Done("DEBUG_INFO", 0, NoArg))

\* the commands vdu_sys_buffered knows
BufferedCommands == (BUFFERED_WRITE..BUFFERED_COPY_AND_CONSOLIDATE) \cup {BUFFERED_DEBUG_INFO}

\* default: an unknown command is logged and skipped
BufferedUnknown ==
    /\ IsBufferedCmd(Rem)
    /\ CmdOp(Rem) \notin BufferedCommands
    /\ CommitRead(Now, 6, Done("UNKNOWN", 0, NoArg))

----------------------------------------------------------------------------
(* Allocation failure.  make_shared_psram, consolidateBuffers and          *)
(* splitBuffer can come back empty where the handlers test for it; the     *)
(* failAt-th allocation of the command is the one that fails.              *)

MaxAllocs == 4

\* history of a command one of whose allocations failed
AllocFail(op, failAt, arg) ==
    Done("ALLOC_FAIL", NoValue, [op |-> op, failAt |-> failAt, arg |-> arg])

\* bufferCopy allocates one block per source block; a failure returns
\* before the target is assigned
CopyAllocs(m, bufferId, sourceBufferIds) ==
    IF bufferId = ReservedId THEN 0
    ELSE Len(SourceBlocks(m.b, sourceBufferIds, NoValue))

\* bufferConsolidate allocates in consolidateBuffers; a failure returns
\* before the buffer is cleared
ConsolidateAllocs(m, bufferId) ==
    IF bufferId \notin DOMAIN m.b THEN 0
    ELSE IF Len(m.b[bufferId]) = 1 THEN 0
    ELSE 1

\* bufferCopyAndConsolidate allocates unless the target is one block of the
\* right size
CopyAndConsolidateAllocs(m, bufferId, sourceBufferIds) ==
    IF bufferId = ReservedId THEN 0
    ELSE IF /\ Len(At(m.b, bufferId)) = 1
            /\ Len(m.h[At(m.b, bufferId)[1]])
                  = TotalSize(SourceBlocks(m.b, sourceBufferIds, bufferId), m.h)
    THEN 0
    ELSE 1

\* bufferCopyAndConsolidate when the allocation fails: buffers[bufferId] has
\* been taken with operator[] and cleared
bufferCopyAndConsolidateFails(m, bufferId) ==
    [m EXCEPT !.b = MapPut(m.b, bufferId, <<>>)]

\* bufferSplitInto allocates in consolidateBuffers and then in splitBuffer
SplitAllocs(m, bufferId, length) ==
    IF bufferId \notin DOMAIN m.b THEN 0
    ELSE IF splitBuffer(Flat(m.b[bufferId], m.h), length) = <<>> THEN 1
    ELSE 2

\* bufferSplitInto when an allocation fails: consolidateBuffers fails before
\* anything is changed, splitBuffer after the targets have been cleared
bufferSplitIntoFails(m, newBufferIds, iterate, failAt) ==
    IF failAt = 1 \/ iterate THEN m
    ELSE [m EXCEPT !.b = clearTargets(m.b, newBufferIds)]

\* bufferSplitByInto allocates in consolidateBuffers, in splitBuffer and in
\* consolidateBuffers once per chunk
SplitByAllocs(m, bufferId, width, chunkCount) ==
    IF bufferId \notin DOMAIN m.b THEN 0
    ELSE IF splitBuffer(Flat(m.b[bufferId], m.h), width) = <<>> THEN 1
    ELSE 2 + chunkCount

\* the targets of the first n chunks of a distribution
RECURSIVE TargetAfter(_, _)
TargetAfter(t, n) ==
    IF n = 0 THEN t ELSE TargetAfter(updateTarget(t.ids, t.idx, t.iterate), n - 1)

\* the distribution loop of bufferSplitByInto up to the chunk whose
\* consolidateBuffers fails: the chunks before it are in place and, when
\* the targets are numbered on, its own target has been cleared
SplitByPartial(m, chunks, t, done) ==
    LET m2 == DistributeChunks(m, SubSeq(chunks, 1, done), t)
        next == TargetAfter(t, done)
    IN  IF t.iterate
        THEN [m2 EXCEPT !.b = clearTarget(m2.b, next.ids[next.idx])]
        ELSE m2

\* bufferSplitByInto when the failAt-th allocation fails
bufferSplitByIntoFails(m, bufferId, width, chunkCount, newBufferIds, iterate, failAt) ==
    LET m1 == IF iterate THEN m
              ELSE [m EXCEPT !.b = clearTargets(m.b, newBufferIds)]
        rawchunks == splitBuffer(Flat(m.b[bufferId], m.h), width)
        chunks == Interleave(rawchunks, [i \in 1..chunkCount |-> <<>>], 0, chunkCount)
    IN  IF failAt = 1 THEN m
        ELSE IF failAt = 2 THEN m1
        ELSE SplitByPartial(m1, chunks,
                            [ids |-> newBufferIds, idx |-> 1, iterate |-> iterate],
                            failAt - 3)

\* BUFFERED_COPY with an allocation that fails
BufferedCopyNoMemory ==
    /\ Decoding(BUFFERED_COPY)
    /\ LET l == getBufferIdsFromStream(Rem, ArgAt)
       IN  /\ l.ids # <<>>
           /\ \E failAt \in 1..MaxAllocs :
                  /\ failAt <= CopyAllocs(Now, CmdId(Rem), l.ids)
                  /\ CommitRead(Now, l.next - 1,
                                AllocFail("COPY", failAt, [ids |-> l.ids]))

\* BUFFERED_COPY_AND_CONSOLIDATE with an allocation that fails
BufferedCopyAndConsolidateNoMemory ==
    /\ Decoding(BUFFERED_COPY_AND_CONSOLIDATE)
    /\ LET l == getBufferIdsFromStream(Rem, ArgAt)
       IN  /\ l.ids # <<>>
           /\ CopyAndConsolidateAllocs(Now, CmdId(Rem), l.ids) = 1
           /\ CommitRead(bufferCopyAndConsolidateFails(Now, CmdId(Rem)), l.next - 1,
                         AllocFail("COPY_AND_CONSOLIDATE", 1, [ids |-> l.ids]))

\* BUFFERED_CONSOLIDATE with an allocation that fails
BufferedConsolidateNoMemory ==
    /\ Decoding(BUFFERED_CONSOLIDATE)
    /\ ConsolidateAllocs(Now, CmdId(Rem)) = 1
    /\ CommitRead(Now, 6, AllocFail("CONSOLIDATE", 1, NoArg))

\* BUFFERED_SPLIT, BUFFERED_SPLIT_INTO and BUFFERED_SPLIT_FROM with an
\* allocation that fails, the targets read as the handler reads them
SplitNoMemory(op, n, length, newBufferIds, iterate) ==
    \E failAt \in 1..MaxAllocs :
        /\ failAt <= SplitAllocs(Now, CmdId(Rem), length)
        /\ CommitRead(bufferSplitIntoFails(Now, newBufferIds, iterate, failAt), n,
                      AllocFail(op, failAt, [ids |-> newBufferIds]))

BufferedSplitNoMemory ==
    /\ Decoding(BUFFERED_SPLIT)
    /\ readWord_t(Rem, ArgAt) # NoValue
    /\ SplitNoMemory("SPLIT", 8, readWord_t(Rem, ArgAt), <<CmdId(Rem)>>, FALSE)

BufferedSplitIntoNoMemory ==
    /\ Decoding(BUFFERED_SPLIT_INTO)
    /\ readWord_t(Rem, ArgAt) # NoValue
    /\ LET l == getBufferIdsFromStream(Rem, ArgAt + 2)
       IN  /\ l.ids # <<>>
           /\ SplitNoMemory("SPLIT_INTO", l.next - 1, readWord_t(Rem, ArgAt),
                            l.ids, FALSE)

BufferedSplitFromNoMemory ==
    /\ Decoding(BUFFERED_SPLIT_FROM)
    /\ readWord_t(Rem, ArgAt) # NoValue
    /\ readWord_t(Rem, ArgAt + 2) # NoValue
    /\ readWord_t(Rem, ArgAt + 2) # ReservedId
    /\ SplitNoMemory("SPLIT_FROM", 10, readWord_t(Rem, ArgAt),
                     <<readWord_t(Rem, ArgAt + 2)>>, TRUE)

\* the SPLIT_BY commands with an allocation that fails
SplitByNoMemory(op, n, width, chunkCount, newBufferIds, iterate) ==
    \E failAt \in 1..MaxAllocs :
        /\ chunkCount >= 1
        /\ failAt <= SplitByAllocs(Now, CmdId(Rem), width, chunkCount)
        /\ CommitRead(bufferSplitByIntoFails(Now, CmdId(Rem), width, chunkCount,
                                             newBufferIds, iterate, failAt),
                      n, AllocFail(op, failAt, [ids |-> newBufferIds]))

BufferedSplitByNoMemory ==
    /\ Decoding(BUFFERED_SPLIT_BY)
    /\ readWord_t(Rem, ArgAt) # NoValue
    /\ readWord_t(Rem, ArgAt + 2) # NoValue
    /\ SplitByNoMemory("SPLIT_BY", 10, readWord_t(Rem, ArgAt),
                       readWord_t(Rem, ArgAt + 2), <<CmdId(Rem)>>, FALSE)

BufferedSplitByIntoNoMemory ==
    /\ Decoding(BUFFERED_SPLIT_BY_INTO)
    /\ readWord_t(Rem, ArgAt) # NoValue
    /\ LET l == getBufferIdsFromStream(Rem, ArgAt + 2)
       IN  /\ l.ids # <<>>
           /\ SplitByNoMemory("SPLIT_BY_INTO", l.next - 1, readWord_t(Rem, ArgAt),
                              Len(l.ids), l.ids, FALSE)

BufferedSplitByFromNoMemory ==
    /\ Decoding(BUFFERED_SPLIT_BY_FROM)
    /\ readWord_t(Rem, ArgAt) # NoValue
    /\ readWord_t(Rem, ArgAt + 2) # NoValue
    /\ readWord_t(Rem, ArgAt + 4) # NoValue
    /\ readWord_t(Rem, ArgAt + 4) # ReservedId
    /\ SplitByNoMemory("SPLIT_BY_FROM", 12, readWord_t(Rem, ArgAt),
                       readWord_t(Rem, ArgAt + 2), <<readWord_t(Rem, ArgAt + 4)>>,
                       TRUE)

----------------------------------------------------------------------------
(* The samples of vdu_sys_audio.                                           *)

AUDIO_CMD_SAMPLE == 5
AUDIO_SAMPLE_LOAD == 0
AUDIO_SAMPLE_CLEAR == 1
AUDIO_SAMPLE_FROM_BUFFER == 2
AUDIO_FORMAT_DATA_MASK == 7
AUDIO_FORMAT_WITH_RATE == 8
AUDIO_FORMAT_TUNEABLE == 16
AUDIO_DEFAULT_SAMPLE_RATE == 16384
AUDIO_DEFAULT_FREQUENCY == 523
BUFFERED_SAMPLE_BASEID == 64256

\* (int8_t) channel
Int8(x) == IF x >= 128 THEN x - 256 ELSE x

\* the uint16_t sample number a channel byte stands for
SampleNum(channel) == (BUFFERED_SAMPLE_BASEID + (-Int8(channel) - 1)) % 65536

\* AudioSample(blocks, format, sampleRate)
AudioSample(blocks, format, sampleRate) ==
    [blocks |-> blocks, format |-> format, sampleRate |-> sampleRate,
     baseFrequency |-> 0, repeatStart |-> 0, repeatLength |-> NoValue]

\* variant of createSampleFromBuffer without clearSample: the sample that is
\* there keeps its base frequency and its repeat
createSampleFromBuffer_keeps(m, bufferId, format, sampleRate) ==
    LET made == AudioSample(m.b[bufferId], format % (AUDIO_FORMAT_DATA_MASK + 1),
                            IF Bit(format, AUDIO_FORMAT_WITH_RATE)
                            THEN sampleRate ELSE AUDIO_DEFAULT_SAMPLE_RATE)
        kept == IF bufferId \in DOMAIN m.s
                THEN [m.s[bufferId] EXCEPT !.blocks = made.blocks,
                                           !.format = made.format,
                                           !.sampleRate = made.sampleRate]
                ELSE made
    IN  IF bufferId \notin DOMAIN m.b THEN [m |-> m, status |-> 0]
        ELSE [m |-> [m EXCEPT !.s = MapPut(m.s, bufferId, kept)], status |-> 1]

\* createSampleFromBuffer: [m, status]
createSampleFromBuffer(m, bufferId, format, sampleRate) ==
    LET made == AudioSample(m.b[bufferId], format % (AUDIO_FORMAT_DATA_MASK + 1),
                            IF Bit(format, AUDIO_FORMAT_WITH_RATE)
                            THEN sampleRate ELSE AUDIO_DEFAULT_SAMPLE_RATE)
        sample == IF Bit(format, AUDIO_FORMAT_TUNEABLE)
                  THEN [made EXCEPT !.baseFrequency = AUDIO_DEFAULT_FREQUENCY]
                  ELSE made
    IN  IF bufferId \notin DOMAIN m.b THEN [m |-> m, status |-> 0]
        ELSE [m |-> [m EXCEPT !.s = MapPut(clearSample(m.s, bufferId), bufferId, sample)],
              status |-> 1]

\* loadSample: [m, status, n] with n the payload bytes read
loadSample(m, bufferId, length, src) ==
    LET w == bufferWrite(bufferClear(m, bufferId), bufferId, length, src)
        c == createSampleFromBuffer(w.m, bufferId, 0, AUDIO_DEFAULT_SAMPLE_RATE)
    IN  IF w.ret # 0 THEN [m |-> w.m, status |-> 0, n |-> w.n]
        ELSE [m |-> c.m, status |-> c.status, n |-> w.n]

\* the commands of vdu_sys_audio
AUDIO_CMD_PLAY == 0
AUDIO_CMD_STATUS == 1
AUDIO_CMD_VOLUME == 2
AUDIO_CMD_FREQUENCY == 3
AUDIO_CMD_WAVEFORM == 4
AUDIO_CMD_ENV_VOLUME == 6
AUDIO_CMD_ENV_FREQUENCY == 7
AUDIO_CMD_ENABLE == 8
AUDIO_CMD_DISABLE == 9
AUDIO_CMD_RESET == 10
AUDIO_CMD_SEEK == 11
AUDIO_CMD_DURATION == 12
AUDIO_CMD_SAMPLERATE == 13
AUDIO_CMD_SET_PARAM == 14
AUDIO_SAMPLE_SET_FREQUENCY == 3
AUDIO_SAMPLE_BUFFER_SET_FREQUENCY == 4
AUDIO_SAMPLE_SET_REPEAT_START == 5
AUDIO_SAMPLE_BUFFER_SET_REPEAT_START == 6
AUDIO_SAMPLE_SET_REPEAT_LENGTH == 7
AUDIO_SAMPLE_BUFFER_SET_REPEAT_LENGTH == 8
AUDIO_SAMPLE_DEBUG_INFO == 16
AUDIO_WAVE_SAMPLE == 8
AUDIO_ENVELOPE_NONE == 0
AUDIO_ENVELOPE_ADSR == 1
AUDIO_ENVELOPE_MULTIPHASE_ADSR == 2
AUDIO_FREQUENCY_ENVELOPE_STEPPED == 1
AUDIO_PARAM_16BIT == 128
RepeatLengthAll == 16777215

\* an audio command with its channel and command bytes readable
IsAudioCmd(rem) == IsPrefix(rem, VDP_AUDIO) /\ Len(rem) >= 5

DecodingAudio(command) == IsAudioCmd(Rem) /\ Rem[5] = command

\* an audio sample command with channel, command and action readable
IsSampleCmd(rem) ==
    /\ IsPrefix(rem, VDP_AUDIO)
    /\ Len(rem) >= 6
    /\ rem[5] = AUDIO_CMD_SAMPLE

DecodingSample(action) == IsSampleCmd(Rem) /\ Rem[6] = action

\* index of the first payload byte of a channel command
AudioArgAt == 6

----------------------------------------------------------------------------
(* The audio channels.                                                     *)

\* what a channel answers to a request: 1 success, 0 refused or not ready
ChannelStatuses == {0, 1}

channelEnabled(ch, channel) == channel \in Channels /\ ch[channel] # "Disabled"

\* enableChannel: [ch, status]
enableChannel(ch, channel) ==
    IF channel \in Channels /\ ch[channel] = "Disabled"
    THEN [ch |-> [ch EXCEPT ![channel] = "Idle"], status |-> 1]
    ELSE [ch |-> ch, status |-> 0]

\* variant of audioTaskKill that leaves the channel as it is
audioTaskKill_keeps(ch, channel) == ch

\* audioTaskKill: the channel's task ends and the channel is gone
audioTaskKill(ch, channel) ==
    IF channel \in Channels THEN [ch EXCEPT ![channel] = "Disabled"] ELSE ch

\* disableChannel: [ch, status]
disableChannel(ch, channel) ==
    IF channelEnabled(ch, channel)
    THEN [ch |-> audioTaskKill(ch, channel), status |-> 1]
    ELSE [ch |-> ch, status |-> 0]

\* playNote with the channel's answer: [ch, status]
playNote(ch, channel, status) ==
    IF channelEnabled(ch, channel) /\ status = 1
    THEN [ch |-> [ch EXCEPT ![channel] = "Playing"], status |-> 1]
    ELSE [ch |-> ch, status |-> 0]

\* the statuses a request to the channel can come back with
Answers(ch, channel) ==
    IF channelEnabled(ch, channel) THEN ChannelStatuses ELSE {0}

\* the channel's own task: a note ends, its release ends
AudioTask ==
    /\ \E c \in Channels :
           /\ audioChannels[c] \in {"Playing", "Releasing"}
           /\ audioChannels' =
                  [audioChannels EXCEPT ![c] =
                       IF audioChannels[c] = "Playing" THEN "Releasing" ELSE "Idle"]
           /\ last' = Step("AUDIO_TASK", c, 0, NoArg)
    /\ pre' = Before
    /\ UNCHANGED <<buffers, heap, samples, stack, outputStream, input, fed>>

----------------------------------------------------------------------------
(* History of an audio command.                                            *)

\* sendAudioStatus: the packet
AudioPacket(channel, status) == [channel |-> channel, status |-> status]

\* the command has sent its status; short tells that a read of its payload
\* has failed
AudioSent(op, id, status, arg, short) ==
    [Step(op, id, status, arg) EXCEPT
         !.packets = <<AudioPacket(Rem[4], status)>>, !.short = short]

\* the command has returned at a failed read and has sent nothing
AudioReturned(op, id) ==
    [Step(op, id, NoValue, NoArg) EXCEPT !.short = TRUE]

\* the command has ended without a call of sendAudioStatus
AudioSilent(op, id) == Step(op, id, NoValue, NoArg)

\* a failed read: the stream is used up and the command returns
AudioReturn(op, id) == CommitRead(Now, Len(Rem), AudioReturned(op, id))

\* n bytes read, the channels become ch, the status is sent
AudioCommit(m, n, ch, op, id, status, arg) ==
    CommitAll(m, StackAfter(n), InputAfter(n), outputStream, ch,
              AudioSent(op, id, status, arg, FALSE))

\* a read inside the command's function has failed: status 0 is sent
AudioFailed(op, id) ==
    CommitRead(Now, Len(Rem), AudioSent(op, id, 0, NoArg, TRUE))

----------------------------------------------------------------------------
(* The channel commands of vdu_sys_audio.                                  *)

\* vdu_sys_audio: the stream ends before channel and command are read
AudioShort ==
    /\ IsPrefix(Rem, VDP_AUDIO)
    /\ Len(Rem) < 5
    /\ CommitRead(Now, Len(Rem), Step("AUDIO_SHORT", 0, NoValue, NoArg))

\* a command with n payload bytes that the channel answers
AudioRequest(op, command, n) ==
    /\ DecodingAudio(command)
    /\ IF Len(Rem) < 5 + n THEN AudioReturn(op, Rem[4])
       ELSE \E status \in Answers(audioChannels, Rem[4]) :
                AudioCommit(Now, 5 + n, audioChannels, op, Rem[4], status, NoArg)

\* AUDIO_CMD_PLAY
AudioPlay ==
    /\ DecodingAudio(AUDIO_CMD_PLAY)
    /\ IF Len(Rem) < 10 THEN AudioReturn("PLAY", Rem[4])
       ELSE \E status \in Answers(audioChannels, Rem[4]) :
                LET r == playNote(audioChannels, Rem[4], status)
                IN  AudioCommit(Now, 10, r.ch, "PLAY", Rem[4], r.status, NoArg)

\* AUDIO_CMD_STATUS
AudioStatus ==
    /\ DecodingAudio(AUDIO_CMD_STATUS)
    /\ AudioRequest("STATUS", AUDIO_CMD_STATUS, 0)

\* AUDIO_CMD_VOLUME
AudioVolume ==
    /\ DecodingAudio(AUDIO_CMD_VOLUME)
    /\ AudioRequest("VOLUME", AUDIO_CMD_VOLUME, 1)

\* AUDIO_CMD_FREQUENCY
AudioFrequency ==
    /\ DecodingAudio(AUDIO_CMD_FREQUENCY)
    /\ AudioRequest("FREQUENCY", AUDIO_CMD_FREQUENCY, 2)

\* AUDIO_CMD_WAVEFORM
AudioWaveform ==
    /\ DecodingAudio(AUDIO_CMD_WAVEFORM)
    /\ AudioRequest("WAVEFORM", AUDIO_CMD_WAVEFORM,
                    IF readByte_t(Rem, AudioArgAt) = AUDIO_WAVE_SAMPLE THEN 3 ELSE 1)

\* AUDIO_CMD_ENABLE
AudioEnable ==
    /\ DecodingAudio(AUDIO_CMD_ENABLE)
    /\ LET r == enableChannel(audioChannels, Rem[4])
       IN  AudioCommit(Now, 5, r.ch, "ENABLE", Rem[4], r.status, NoArg)

\* AUDIO_CMD_DISABLE
AudioDisable ==
    /\ DecodingAudio(AUDIO_CMD_DISABLE)
    /\ LET r == disableChannel(audioChannels, Rem[4])
       IN  AudioCommit(Now, 5, r.ch, "DISABLE", Rem[4], r.status, NoArg)

\* AUDIO_CMD_RESET
AudioReset ==
    /\ DecodingAudio(AUDIO_CMD_RESET)
    /\ LET r == enableChannel(audioTaskKill(audioChannels, Rem[4]), Rem[4])
       IN  IF channelEnabled(audioChannels, Rem[4])
           THEN AudioCommit(Now, 5, r.ch, "RESET", Rem[4], r.status, NoArg)
           ELSE AudioCommit(Now, 5, audioChannels, "RESET", Rem[4], 0, NoArg)

\* AUDIO_CMD_SEEK
AudioSeek ==
    /\ DecodingAudio(AUDIO_CMD_SEEK)
    /\ AudioRequest("SEEK", AUDIO_CMD_SEEK, 3)

\* AUDIO_CMD_DURATION
AudioDuration ==
    /\ DecodingAudio(AUDIO_CMD_DURATION)
    /\ AudioRequest("DURATION", AUDIO_CMD_DURATION, 3)

\* AUDIO_CMD_SAMPLERATE
AudioSampleRate ==
    /\ DecodingAudio(AUDIO_CMD_SAMPLERATE)
    /\ AudioRequest("SAMPLERATE", AUDIO_CMD_SAMPLERATE, 2)

\* AUDIO_CMD_SET_PARAM
AudioSetParam ==
    /\ DecodingAudio(AUDIO_CMD_SET_PARAM)
    /\ AudioRequest("SET_PARAM", AUDIO_CMD_SET_PARAM,
                    IF readByte_t(Rem, AudioArgAt) # NoValue
                       /\ Bit(readByte_t(Rem, AudioArgAt), AUDIO_PARAM_16BIT)
                    THEN 3 ELSE 2)

\* the commands vdu_sys_audio knows
AudioCommands == AUDIO_CMD_PLAY..AUDIO_CMD_SET_PARAM

\* the switch has no default: another command code ends the command
AudioUnknown ==
    /\ IsAudioCmd(Rem)
    /\ Rem[5] \notin AudioCommands
    /\ CommitRead(Now, 5, AudioSilent("AUDIO_UNKNOWN", Rem[4]))

----------------------------------------------------------------------------
(* The envelope commands.                                                  *)

\* getPhases: the index after the sub-phases that start at index at, or
\* NoValue when the stream ends first
getPhases(rem, at) ==
    IF at = NoValue \/ readByte_t(rem, at) = NoValue THEN NoValue
    ELSE IF at + 3 * rem[at] > Len(rem) THEN NoValue
    ELSE at + 1 + 3 * rem[at]

\* the index after the payload of a volume envelope of the type, or NoValue
VolumeEnvelopeEnd(rem, type, at) ==
    IF type = AUDIO_ENVELOPE_ADSR
    THEN (IF at + 6 > Len(rem) THEN NoValue ELSE at + 7)
    ELSE IF type = AUDIO_ENVELOPE_MULTIPHASE_ADSR
    THEN getPhases(rem, getPhases(rem, getPhases(rem, at)))
    ELSE at

\* the index after the payload of a frequency envelope of the type, or NoValue
FrequencyEnvelopeEnd(rem, type, at) ==
    IF type = AUDIO_FREQUENCY_ENVELOPE_STEPPED
    THEN (IF at + 3 > Len(rem) THEN NoValue
          ELSE IF at + 3 + 4 * rem[at] > Len(rem) THEN NoValue
          ELSE at + 4 + 4 * rem[at])
    ELSE at

\* setVolumeEnvelope / setFrequencyEnvelope: a channel that is not enabled
\* and a type that is not known answer 0 and read nothing; a failed read
\* answers 0
setEnvelope(op, types, end) ==
    IF ~channelEnabled(audioChannels, Rem[4]) \/ Rem[6] \notin types
    THEN AudioCommit(Now, 6, audioChannels, op, Rem[4], 0, NoArg)
    ELSE IF end = NoValue THEN AudioFailed(op, Rem[4])
    ELSE \E status \in ChannelStatuses :
             AudioCommit(Now, end - 1, audioChannels, op, Rem[4], status, NoArg)

\* AUDIO_CMD_ENV_VOLUME
AudioEnvVolume ==
    /\ DecodingAudio(AUDIO_CMD_ENV_VOLUME)
    /\ IF Len(Rem) < 6 THEN AudioReturn("ENV_VOLUME", Rem[4])
       ELSE setEnvelope("ENV_VOLUME",
                        {AUDIO_ENVELOPE_NONE, AUDIO_ENVELOPE_ADSR,
                         AUDIO_ENVELOPE_MULTIPHASE_ADSR},
                        VolumeEnvelopeEnd(Rem, Rem[6], 7))

\* AUDIO_CMD_ENV_FREQUENCY
AudioEnvFrequency ==
    /\ DecodingAudio(AUDIO_CMD_ENV_FREQUENCY)
    /\ IF Len(Rem) < 6 THEN AudioReturn("ENV_FREQUENCY", Rem[4])
       ELSE setEnvelope("ENV_FREQUENCY",
                        {AUDIO_ENVELOPE_NONE, AUDIO_FREQUENCY_ENVELOPE_STEPPED},
                        FrequencyEnvelopeEnd(Rem, Rem[6], 7))

----------------------------------------------------------------------------
(* The sample commands of vdu_sys_audio.                                   *)

\* the entry samples[bufferId] makes for an id it does not hold: no sample
NullSample ==
    [blocks |-> <<>>, format |-> NoValue, sampleRate |-> NoValue,
     baseFrequency |-> NoValue, repeatStart |-> NoValue, repeatLength |-> NoValue]

\* what the build can do with a write through an entry that holds no
\* sample: the write is lost and the command goes on, or the processor traps
\* and the program starts again with empty stores
AccessOutcomes(undefined) ==
    IF undefined THEN {"returns", "restarts"} ELSE {"returns"}

\* a setter of one field of the sample: [m, status, undefined]
setSampleField(m, sampleId, sample) ==
    IF sampleId \notin DOMAIN m.s THEN [m |-> m, status |-> 0, undefined |-> FALSE]
    ELSE IF m.s[sampleId] = NullSample
    THEN [m |-> m, status |-> 1, undefined |-> TRUE]
    ELSE [m |-> [m EXCEPT !.s = MapPut(m.s, sampleId, sample)], status |-> 1,
          undefined |-> FALSE]

\* setSampleFrequency
setSampleFrequency(m, sampleId, frequency) ==
    setSampleField(m, sampleId, [m.s[sampleId] EXCEPT !.baseFrequency = frequency])

\* setSampleRepeatStart
setSampleRepeatStart(m, sampleId, repeatStart) ==
    setSampleField(m, sampleId, [m.s[sampleId] EXCEPT !.repeatStart = repeatStart])

\* setSampleRepeatLength: 0xFFFFFF stands for -1, the whole sample
setSampleRepeatLength(m, sampleId, repeatLength) ==
    setSampleField(m, sampleId,
                   [m.s[sampleId] EXCEPT !.repeatLength =
                        IF repeatLength = RepeatLengthAll THEN NoValue
                        ELSE repeatLength])

\* vdu_sys_audio, AUDIO_CMD_SAMPLE: the stream ends before the action is read
AudioSampleShort ==
    /\ DecodingAudio(AUDIO_CMD_SAMPLE)
    /\ Len(Rem) = 5
    /\ AudioReturn("SAMPLE_SHORT", Rem[4])

\* AUDIO_SAMPLE_LOAD
AudioSampleLoad ==
    /\ DecodingSample(AUDIO_SAMPLE_LOAD)
    /\ LET length == read24_t(Rem, ArgAt)
           r == loadSample(Now, SampleNum(Rem[4]), length, Drop(Rem, ArgAt + 2))
       IN  IF length = NoValue
           THEN AudioReturn("SAMPLE_LOAD", SampleNum(Rem[4]))
           ELSE CommitRead(r.m, ArgAt + 2 + r.n,
                           AudioSent("SAMPLE_LOAD", SampleNum(Rem[4]), r.status,
                                     [length |-> length], r.status = 0))

\* AUDIO_SAMPLE_CLEAR
AudioSampleClear ==
    /\ DecodingSample(AUDIO_SAMPLE_CLEAR)
    /\ CommitRead([Now EXCEPT !.s = clearSample(samples, SampleNum(Rem[4]))], 6,
                  AudioSent("SAMPLE_CLEAR", SampleNum(Rem[4]),
                            IF SampleNum(Rem[4]) \in DOMAIN samples THEN 1 ELSE 0,
                            NoArg, FALSE))

\* AUDIO_SAMPLE_FROM_BUFFER
AudioSampleFromBuffer ==
    /\ DecodingSample(AUDIO_SAMPLE_FROM_BUFFER)
    /\ LET bufferId == readWord_t(Rem, ArgAt)
           format == readByte_t(Rem, ArgAt + 2)
           withRate == format # NoValue /\ Bit(format, AUDIO_FORMAT_WITH_RATE)
           sampleRate == IF withRate THEN readWord_t(Rem, ArgAt + 3)
                         ELSE AUDIO_DEFAULT_SAMPLE_RATE
           r == createSampleFromBuffer(Now, bufferId, format, sampleRate)
       IN  IF bufferId = NoValue \/ format = NoValue \/ sampleRate = NoValue
           THEN AudioReturn("SAMPLE_FROM_BUFFER", bufferId)
           ELSE CommitRead(r.m, IF withRate THEN 11 ELSE 9,
                           AudioSent("SAMPLE_FROM_BUFFER", bufferId, r.status,
                                     [format |-> format, sampleRate |-> sampleRate],
                                     FALSE))

\* a sample action with n payload bytes that sets a field of sample id: r
\* is what its setter gives
SampleSet(op, n, id, r) ==
    IF Len(Rem) < 6 + n THEN AudioReturn(op, id)
    ELSE \E outcome \in AccessOutcomes(r.undefined) :
             IF outcome = "restarts"
             THEN CommitAll(Store(EmptyMap, EmptyMap, EmptyMap), <<>>, <<>>,
                            SerialOutput, NoChannels, AudioSilent(op, id))
             ELSE CommitRead(r.m, 6 + n,
                             AudioSent(op, id, r.status, [bytes |-> Take(Rem, 6 + n)],
                                       FALSE))

\* AUDIO_SAMPLE_SET_FREQUENCY
AudioSampleSetFrequency ==
    /\ DecodingSample(AUDIO_SAMPLE_SET_FREQUENCY)
    /\ SampleSet("SAMPLE_SET_FREQUENCY", 2, SampleNum(Rem[4]),
                 setSampleFrequency(Now, SampleNum(Rem[4]), readWord_t(Rem, ArgAt)))

\* AUDIO_SAMPLE_BUFFER_SET_FREQUENCY
AudioSampleBufferSetFrequency ==
    /\ DecodingSample(AUDIO_SAMPLE_BUFFER_SET_FREQUENCY)
    /\ SampleSet("SAMPLE_SET_FREQUENCY", 4, readWord_t(Rem, ArgAt),
                 setSampleFrequency(Now, readWord_t(Rem, ArgAt),
                                    readWord_t(Rem, ArgAt + 2)))

\* AUDIO_SAMPLE_SET_REPEAT_START
AudioSampleSetRepeatStart ==
    /\ DecodingSample(AUDIO_SAMPLE_SET_REPEAT_START)
    /\ SampleSet("SAMPLE_SET_REPEAT_START", 3, SampleNum(Rem[4]),
                 setSampleRepeatStart(Now, SampleNum(Rem[4]), read24_t(Rem, ArgAt)))

\* AUDIO_SAMPLE_BUFFER_SET_REPEAT_START
AudioSampleBufferSetRepeatStart ==
    /\ DecodingSample(AUDIO_SAMPLE_BUFFER_SET_REPEAT_START)
    /\ SampleSet("SAMPLE_SET_REPEAT_START", 5, readWord_t(Rem, ArgAt),
                 setSampleRepeatStart(Now, readWord_t(Rem, ArgAt),
                                      read24_t(Rem, ArgAt + 2)))

\* AUDIO_SAMPLE_SET_REPEAT_LENGTH
AudioSampleSetRepeatLength ==
    /\ DecodingSample(AUDIO_SAMPLE_SET_REPEAT_LENGTH)
    /\ SampleSet("SAMPLE_SET_REPEAT_LENGTH", 3, SampleNum(Rem[4]),
                 setSampleRepeatLength(Now, SampleNum(Rem[4]), read24_t(Rem, ArgAt)))

\* AUDIO_SAMPLE_BUFFER_SET_REPEAT_LENGTH
AudioSampleBufferSetRepeatLength ==
    /\ DecodingSample(AUDIO_SAMPLE_BUFFER_SET_REPEAT_LENGTH)
    /\ SampleSet("SAMPLE_SET_REPEAT_LENGTH", 5, readWord_t(Rem, ArgAt),
                 setSampleRepeatLength(Now, readWord_t(Rem, ArgAt),
                                       read24_t(Rem, ArgAt + 2)))

\* samples[bufferId] of AUDIO_SAMPLE_DEBUG_INFO: an id the map does not hold
\* gets an entry with no sample
sampleDebugInfo(m, bufferId) ==
    IF bufferId \in DOMAIN m.s THEN m
    ELSE [m EXCEPT !.s = MapPut(m.s, bufferId, NullSample)]

\* AUDIO_SAMPLE_DEBUG_INFO: no status is sent
AudioSampleDebugInfo ==
    /\ DecodingSample(AUDIO_SAMPLE_DEBUG_INFO)
    /\ IF Len(Rem) < 8 THEN AudioReturn("SAMPLE_DEBUG_INFO", NoValue)
       ELSE CommitRead(sampleDebugInfo(Now, readWord_t(Rem, ArgAt)), 8,
                       AudioSilent("SAMPLE_DEBUG_INFO", readWord_t(Rem, ArgAt)))

\* the sample actions vdu_sys_audio knows
SampleActions ==
    (AUDIO_SAMPLE_LOAD..AUDIO_SAMPLE_BUFFER_SET_REPEAT_LENGTH)
        \cup {AUDIO_SAMPLE_DEBUG_INFO}

\* default: an unknown sample action is logged and answered with status 0
AudioSampleUnknown ==
    /\ IsSampleCmd(Rem)
    /\ Rem[6] \notin SampleActions
    /\ CommitRead(Now, 6, AudioSent("SAMPLE_UNKNOWN", SampleNum(Rem[4]), 0, NoArg, FALSE))

----------------------------------------------------------------------------
(* What the host sends: commands as bytes.                                 *)

W16(x) == <<x % 256, x \div 256>>

W24(x) == <<x % 256, (x \div 256) % 256, x \div 65536>>

\* VDU 23, 0, &A0, bufferId; command
Hdr(bufferId, command) == <<VDU_SYS, VDU_SYS_VDP, VDP_BUFFERED>> \o W16(bufferId) \o <<command>>

\* <bufferIds>; 65535;
RECURSIVE IdList(_)
IdList(ids) ==
    IF ids = <<>> THEN W16(ReservedId) ELSE W16(Head(ids)) \o IdList(Tail(ids))

Write(bufferId, data) == Hdr(bufferId, BUFFERED_WRITE) \o W16(Len(data)) \o data

\* a WRITE announcing `length` bytes of which only `data` arrive
WriteShort(bufferId, length, data) == Hdr(bufferId, BUFFERED_WRITE) \o W16(length) \o data

Call(bufferId) == Hdr(bufferId, BUFFERED_CALL)

Clear(bufferId) == Hdr(bufferId, BUFFERED_CLEAR)

Create(bufferId, size) == Hdr(bufferId, BUFFERED_CREATE) \o W16(size)

Jump(bufferId) == Hdr(bufferId, BUFFERED_JUMP)

\* VDU 23, 0, &85, channel, 5, action
SampleHdr(channel, action) ==
    <<VDU_SYS, VDU_SYS_VDP, VDP_AUDIO, channel, AUDIO_CMD_SAMPLE, action>>

SampleLoad(channel, data) == SampleHdr(channel, AUDIO_SAMPLE_LOAD) \o W24(Len(data)) \o data

SampleClear(channel) == SampleHdr(channel, AUDIO_SAMPLE_CLEAR)

SampleFromBuffer(channel, bufferId, format) ==
    SampleHdr(channel, AUDIO_SAMPLE_FROM_BUFFER) \o W16(bufferId) \o <<format>>

\* a COND_ argument: operation, buffer to check, 16-bit offset
CondArgs(op, checkBufferId, offset) == <<op>> \o W16(checkBufferId) \o W16(offset)

----------------------------------------------------------------------------
(* Transmissions the host may send.  One transmission is one command or a  *)
(* burst of commands.                                                      *)

\* every writer command with 65535 in the target position; ADJUST last
ToReserved ==
    Write(ReservedId, <<9>>)
    \o Create(ReservedId, 1)
    \o Hdr(ReservedId, BUFFERED_COPY) \o IdList(<<1>>)
    \o Hdr(ReservedId, BUFFERED_COPY_REF) \o IdList(<<1>>)
    \o Hdr(ReservedId, BUFFERED_COPY_AND_CONSOLIDATE) \o IdList(<<1>>)
    \o Hdr(ReservedId, BUFFERED_CONSOLIDATE)
    \o Hdr(ReservedId, BUFFERED_SPLIT) \o W16(1)
    \o Hdr(1, BUFFERED_SPLIT_INTO) \o W16(1) \o IdList(<<>>)
    \o Hdr(1, BUFFERED_SPLIT_FROM) \o W16(1) \o W16(ReservedId)
    \o Hdr(ReservedId, BUFFERED_SPLIT_BY) \o W16(1) \o W16(2)
    \o Hdr(1, BUFFERED_SPLIT_BY_INTO) \o W16(1) \o IdList(<<>>)
    \o Hdr(1, BUFFERED_SPLIT_BY_FROM) \o W16(1) \o W16(2) \o W16(ReservedId)
    \o Hdr(1, BUFFERED_SPREAD_INTO) \o IdList(<<>>)
    \o Hdr(1, BUFFERED_SPREAD_FROM) \o W16(ReservedId)
    \o Hdr(ReservedId, BUFFERED_REVERSE_BLOCKS)
    \o Hdr(ReservedId, BUFFERED_REVERSE) \o <<0>>
    \o Hdr(ReservedId, BUFFERED_ADJUST) \o <<ADJUST_SET>> \o W16(0) \o <<99>>

CatTarget == {Write(1, <<1, 2>>), Write(2, ToReserved), Call(2), ToReserved}

CatStore ==
    {Write(1, <<5, 6>>), Write(1, <<7>>), WriteShort(1, 2, <<5>>),
     Write(2, WriteShort(3, 2, <<5>>)), Call(2),
     Create(1, 2), Create(3, 1), Create(ReservedId, 1),
     Hdr(1, BUFFERED_DEBUG_INFO),
     Clear(1), Clear(ReservedId),
     SampleFromBuffer(0, 1, 0), Write(1, <<5, 6>>) \o SampleFromBuffer(0, 1, 0),
     SampleLoad(255, <<9>>), SampleClear(255)}

\* the program of the last buffer of a chain
WriteMark == Write(9, <<170>>)

\* buffers 2 -> 3 -> 4, each ending in a CALL to the next
ChainSetup == Write(2, Call(3)) \o Write(3, Call(4)) \o Write(4, WriteMark)

\* buffer 4 and buffers 5 and 6 that jump to it before their last command
JumpSetup ==
    Write(4, WriteMark)
    \o Write(5, Jump(4) \o Write(8, <<1>>))
    \o Write(6, Hdr(4, BUFFERED_COND_JUMP) \o CondArgs(COND_EXISTS, 4, 0)
                \o Write(8, <<1>>))

\* buffer 13 jumps to buffer 14 and holds a WRITE in its second block;
\* buffer 14 jumps to the second block of buffer 13 and holds a WRITE in its
\* own second block
StaleSetup ==
    Write(13, Jump(14)) \o Write(13, Write(9, <<173>>))
    \o Write(14, Hdr(13, BUFFERED_OFFSET_JUMP) \o W24(8388608) \o W16(1))
    \o Write(14, Write(8, <<2>>))

\* buffers 7 and 12 jump to their own end; buffer 10 calls 7 and goes on
EndSetup ==
    Write(7, Jump(ReservedId) \o Write(8, <<1>>))
    \o Write(10, Call(7) \o Write(9, <<171>>))
    \o Write(12, Hdr(ReservedId, BUFFERED_COND_JUMP) \o CondArgs(COND_EXISTS, 7, 0)
                 \o Write(8, <<1>>))

\* buffer 11 jumps into buffer 4 at the start of its second block
OffsetSetup ==
    Write(4, WriteMark) \o Write(4, Write(9, <<172>>))
    \o Write(11, Hdr(4, BUFFERED_OFFSET_JUMP) \o W24(Len(WriteMark)) \o Write(8, <<1>>))

CatCall ==
    {ChainSetup, JumpSetup, EndSetup, OffsetSetup, StaleSetup,
     Call(2), Call(5), Call(6), Call(10), Call(11), Call(12), Call(13),
     Jump(ReservedId), Jump(7)}

\* VDU 23, 0, &A0, bufferId; 5, operation, offset; [count;] [operand]
Adjust(bufferId, operation, args) ==
    Hdr(bufferId, BUFFERED_ADJUST) \o <<operation>> \o args

\* VDU 23, 0, &A0, bufferId; &19, <sourceBufferIds>; 65535;
CopyRef(bufferId, sourceBufferIds) ==
    Hdr(bufferId, BUFFERED_COPY_REF) \o IdList(sourceBufferIds)

\* VDU 23, 0, &A0, bufferId; &0D, <sourceBufferIds>; 65535;
Copy(bufferId, sourceBufferIds) ==
    Hdr(bufferId, BUFFERED_COPY) \o IdList(sourceBufferIds)

\* VDU 23, 0, &A0, bufferId; &18, options, <parameters>
ReverseCmd(bufferId, options, parameters) ==
    Hdr(bufferId, BUFFERED_REVERSE) \o <<options>> \o parameters

\* add-with-carry over several target bytes: one operand per byte, taken
\* from the stream or from a buffer, and one operand for all bytes
AdcEach == ADJUST_ADD_CARRY + ADJUST_MULTI_TARGET + ADJUST_MULTI_OPERAND

AdcEachFrom == AdcEach + ADJUST_BUFFER_VALUE

AdcSame == ADJUST_ADD_CARRY + ADJUST_MULTI_TARGET

\* buffer 1 (FF 00 00 00, then 200 100 in a second block), the operand
\* buffer 2, buffer 3 that is three references to the one-byte block of
\* buffer 4, and add-with-carry commands on them: within a block, across
\* blocks, with operands from buffer 2 and from buffer 1 itself, past the
\* end of the buffer, and from a called buffer
CatAdjust ==
    {Write(1, <<255, 0, 0, 0>>), Write(1, <<200, 100>>), Write(2, <<1, 255>>),
     Write(4, <<200>>) \o CopyRef(3, <<4, 4, 4>>),
     Adjust(1, AdcEach, W16(0) \o W16(2) \o <<1, 255>>),
     Adjust(1, AdcEach, W16(3) \o W16(2) \o <<7, 100>>),
     Adjust(1, AdcEachFrom, W16(0) \o W16(2) \o W16(2) \o W16(0)),
     Adjust(1, AdcEachFrom, W16(1) \o W16(2) \o W16(1) \o W16(0)),
     Adjust(3, AdcEach, W16(0) \o W16(2) \o <<100, 0>>),
     Adjust(1, AdcSame, W16(0) \o W16(3) \o <<1>>),
     Adjust(1, AdcSame, W16(3) \o W16(2) \o <<100>>),
     Write(5, Adjust(1, AdcEach, W16(1) \o W16(2) \o <<255, 255>>)) \o Call(5)}

\* conditional arguments with an operand in the stream (operations above
\* NOT_EXISTS take one) and with an operand taken from a buffer
CondInline(op, checkBufferId, offset, v) ==
    CondArgs(op, checkBufferId, offset)
    \o (IF op > COND_NOT_EXISTS THEN <<v>> ELSE <<>>)

CondFrom(op, checkBufferId, offset, operandBufferId, operandOffset) ==
    CondArgs(op + COND_BUFFER_VALUE, checkBufferId, offset)
    \o (IF op > COND_NOT_EXISTS THEN W16(operandBufferId) \o W16(operandOffset)
        ELSE <<>>)

\* the four conditional commands on one target with the same condition
CondFour(bufferId, cond) ==
    Hdr(bufferId, BUFFERED_COND_CALL) \o cond
    \o Hdr(bufferId, BUFFERED_COND_JUMP) \o cond
    \o Hdr(bufferId, BUFFERED_OFFSET_COND_CALL) \o W24(0) \o cond
    \o Hdr(bufferId, BUFFERED_OFFSET_COND_JUMP) \o W24(0) \o cond

\* the four commands for every operation from op to COND_OR
RECURSIVE CondEveryInline(_, _, _, _, _)
CondEveryInline(op, bufferId, checkBufferId, offset, v) ==
    IF op > COND_OR THEN <<>>
    ELSE CondFour(bufferId, CondInline(op, checkBufferId, offset, v))
         \o CondEveryInline(op + 1, bufferId, checkBufferId, offset, v)

RECURSIVE CondEveryFrom(_, _, _, _, _, _)
CondEveryFrom(op, bufferId, checkBufferId, offset, operandBufferId, operandOffset) ==
    IF op > COND_OR THEN <<>>
    ELSE CondFour(bufferId, CondFrom(op, checkBufferId, offset, operandBufferId,
                                     operandOffset))
         \o CondEveryFrom(op + 1, bufferId, checkBufferId, offset, operandBufferId,
                          operandOffset)

\* buffers 1 and 2 hold the byte 7, buffer 4 the one-byte command VDU 0
CondSetup == Write(1, <<7>>) \o Write(2, <<7>>) \o Write(4, <<0>>)

\* every operation in every conditional command on target 4: with a check
\* buffer that does not exist (20, and 65535 at top level), a check offset
\* outside buffer 1 (also as block 5 of an advanced offset), an operand
\* buffer that does not exist (21), an operand offset outside buffer 2; the
\* last two also from the called buffer 5; and conditions that can be read
CatCond ==
    {CondSetup,
     CondEveryInline(COND_EXISTS, 4, 20, 0, 0),
     CondEveryInline(COND_EXISTS, 4, ReservedId, 0, 0),
     CondEveryInline(COND_EXISTS, 4, 1, 9, 0),
     CondFour(4, <<COND_NOT_EXISTS + COND_ADVANCED_OFFSETS>> \o W16(1)
                 \o W24(8388608) \o W16(5)),
     CondEveryFrom(COND_EQUAL, 4, 1, 0, 21, 0),
     CondEveryFrom(COND_EQUAL, 4, 1, 0, 2, 9),
     Write(5, CondEveryFrom(COND_EQUAL, 4, 1, 0, 2, 9)
              \o CondEveryFrom(COND_EQUAL, 4, 1, 0, 21, 0)
              \o CondEveryInline(COND_EXISTS, 4, ReservedId, 999, 0)) \o Call(5),
     CondFour(4, CondInline(COND_EQUAL, 1, 0, 7)),
     CondFour(4, CondFrom(COND_LESS_EQUAL, 1, 0, 2, 0)),
     Write(6, CondFour(4, CondInline(COND_EXISTS, 1, 0, 0))) \o Call(6)}

\* buffer 1 (A0 A1 B0 B1, then A2 A3 B2 B3 in a second block), buffer 3 of
\* one byte, buffer 2 made of references to the blocks of buffer 1, and
\* CONSOLIDATE, SPLIT and SPLIT_BY on them: CONSOLIDATE followed by SPLIT in
\* one transmission, lengths that divide the size and that do not, more
\* chunks than pieces
CatBlocks ==
    {Write(1, <<160, 161, 176, 177>>), Write(1, <<162, 163, 178, 179>>),
     Write(3, <<9>>),
     CopyRef(2, <<1>>),
     Hdr(1, BUFFERED_CONSOLIDATE),
     Hdr(2, BUFFERED_CONSOLIDATE),
     CopyRef(2, <<1>>) \o Hdr(1, BUFFERED_CONSOLIDATE),
     Hdr(1, BUFFERED_CONSOLIDATE) \o Hdr(1, BUFFERED_SPLIT) \o W16(3),
     Hdr(1, BUFFERED_CONSOLIDATE) \o Hdr(1, BUFFERED_SPLIT) \o W16(4),
     Hdr(3, BUFFERED_CONSOLIDATE) \o Hdr(3, BUFFERED_SPLIT) \o W16(2),
     Hdr(1, BUFFERED_SPLIT) \o W16(5),
     Hdr(1, BUFFERED_SPLIT_BY) \o W16(2) \o W16(2),
     Hdr(1, BUFFERED_SPLIT_BY) \o W16(2) \o W16(3),
     Hdr(1, BUFFERED_SPLIT_BY) \o W16(3) \o W16(2),
     Hdr(3, BUFFERED_SPLIT_BY) \o W16(1) \o W16(2)}

\* one command of every kind on buffers 1 to 3
StoreBurst ==
    Create(2, 2)
    \o Hdr(2, BUFFERED_SET_OUTPUT)
    \o Hdr(2, BUFFERED_ADJUST) \o <<ADJUST_ADD>> \o W16(0) \o <<3>>
    \o Hdr(3, BUFFERED_COPY) \o IdList(<<1, 2>>)
    \o Hdr(3, BUFFERED_CONSOLIDATE)
    \o Hdr(3, BUFFERED_SPLIT) \o W16(2)
    \o Hdr(3, BUFFERED_SPLIT_INTO) \o W16(1) \o IdList(<<2, 3>>)
    \o Hdr(2, BUFFERED_SPLIT_FROM) \o W16(1) \o W16(5)
    \o Hdr(2, BUFFERED_SPLIT_BY) \o W16(1) \o W16(2)
    \o Hdr(2, BUFFERED_SPLIT_BY_INTO) \o W16(1) \o IdList(<<5, 6>>)
    \o Hdr(2, BUFFERED_SPLIT_BY_FROM) \o W16(1) \o W16(2) \o W16(5)
    \o Hdr(2, BUFFERED_SPREAD_INTO) \o IdList(<<5, 6>>)
    \o Hdr(2, BUFFERED_SPREAD_FROM) \o W16(5)
    \o Hdr(2, BUFFERED_REVERSE_BLOCKS)
    \o Hdr(2, BUFFERED_REVERSE) \o <<0>>
    \o Hdr(3, BUFFERED_COPY_REF) \o IdList(<<2>>)
    \o Hdr(3, BUFFERED_COPY_AND_CONSOLIDATE) \o IdList(<<2>>)
    \o Hdr(2, BUFFERED_DEBUG_INFO)
    \o Hdr(2, 99)
    \o Clear(2)

\* one call or jump command of every kind on buffer 1
CallBurst ==
    Call(1)
    \o Hdr(1, BUFFERED_COND_CALL) \o CondArgs(COND_EXISTS, 1, 0)
    \o Jump(1)
    \o Hdr(1, BUFFERED_COND_JUMP) \o CondArgs(COND_EXISTS, 1, 0)
    \o Hdr(1, BUFFERED_OFFSET_JUMP) \o W24(1)
    \o Hdr(1, BUFFERED_OFFSET_COND_JUMP) \o W24(1) \o CondArgs(COND_EXISTS, 1, 0)
    \o Hdr(1, BUFFERED_OFFSET_CALL) \o W24(1)
    \o Hdr(1, BUFFERED_OFFSET_COND_CALL) \o W24(1) \o CondArgs(COND_EXISTS, 1, 0)

SampleBurst ==
    SampleLoad(255, <<9>>) \o SampleFromBuffer(0, 1, 0) \o SampleClear(255)

CatAll ==
    {Write(1, <<1, 2>>), StoreBurst, CallBurst, SampleBurst,
     Hdr(ReservedId, BUFFERED_DEBUG_INFO),
     <<VDU_SYS, VDU_SYS_VDP, VDP_BUFFERED, 1>>,
     <<VDU_SYS, VDU_SYS_VDP, VDP_AUDIO, 255>>}

----------------------------------------------------------------------------
(* Specifications.                                                         *)

NoStep ==
    [op |-> "NONE", id |-> 0, cur |-> ReservedId, src |-> ReservedId,
     depth |-> 0, ret |-> 0, arg |-> NoArg, packets |-> <<>>, short |-> FALSE]

Init ==
    /\ buffers = EmptyMap
    /\ heap = EmptyMap
    /\ samples = EmptyMap
    /\ stack = <<>>
    /\ outputStream = SerialOutput
    /\ audioChannels = NoChannels
    /\ input = <<>>
    /\ fed = 0
    /\ last = NoStep
    /\ pre = [buffers |-> EmptyMap, heap |-> EmptyMap, samples |-> EmptyMap,
              stack |-> <<>>, input |-> <<>>, outputStream |-> SerialOutput,
              audioChannels |-> NoChannels]

FeedAll == Feed(CatAll, MaxCmds)

FeedStore == Feed(CatStore, MaxCmds)

FeedTarget == Feed(CatTarget, MaxCmds)

FeedCall == Feed(CatCall, MaxCmds)

FeedAdjust == Feed(CatAdjust, MaxCmds)

FeedCond == Feed(CatCond, MaxCmds)

\* buffer 1 of a four-byte and a two-byte block, buffer 2 of one block
ShareSetup ==
    Write(1, <<1, 2, 3, 4>>) \o Write(1, <<5, 6>>) \o Write(2, <<7, 8>>)

\* copies by value and by reference (a source twice, the target among the
\* sources, a source that does not exist), then a byte set through one of
\* the buffers
CatCopies ==
    {CopyRef(3, <<1, 2>>), CopyRef(3, <<1, 1>>), CopyRef(1, <<2, 1>>),
     CopyRef(3, <<9, 2>>),
     Copy(3, <<1, 2>>), Copy(3, <<1, 1>>), Copy(1, <<2, 1>>), Copy(3, <<9, 2>>),
     Adjust(3, ADJUST_SET, W16(0) \o <<99>>),
     Adjust(3, ADJUST_SET, W16(5) \o <<99>>),
     Adjust(1, ADJUST_SET, W16(1) \o <<98>>),
     Adjust(2, ADJUST_SET, W16(1) \o <<97>>)}

\* REVERSE with every way of giving the value size and the chunk size: sizes
\* that divide the block sizes 4 and 2, sizes that divide only the first
\* block, a value size of 0
CatReverse ==
    {ReverseCmd(1, 0, <<>>), ReverseCmd(3, 0, <<>>),
     ReverseCmd(1, REVERSE_BLOCK, <<>>),
     ReverseCmd(2, REVERSE_BLOCK, <<>>),
     ReverseCmd(3, REVERSE_BLOCK, <<>>),
     ReverseCmd(1, REVERSE_BLOCK + REVERSE_16BIT, <<>>),
     ReverseCmd(3, REVERSE_BLOCK + REVERSE_16BIT, <<>>),
     ReverseCmd(1, REVERSE_BLOCK + REVERSE_32BIT, <<>>),
     ReverseCmd(1, REVERSE_BLOCK + REVERSE_SIZE, W16(2)),
     ReverseCmd(1, REVERSE_BLOCK + REVERSE_SIZE, W16(3)),
     ReverseCmd(1, REVERSE_BLOCK + REVERSE_SIZE, W16(0)),
     ReverseCmd(1, REVERSE_BLOCK + REVERSE_CHUNKED, W16(2)),
     ReverseCmd(1, REVERSE_BLOCK + REVERSE_CHUNKED, W16(4)),
     ReverseCmd(1, REVERSE_BLOCK + REVERSE_CHUNKED, W16(0)),
     ReverseCmd(1, REVERSE_BLOCK + REVERSE_CHUNKED + REVERSE_16BIT, W16(2)),
     ReverseCmd(1, REVERSE_BLOCK + REVERSE_CHUNKED + REVERSE_SIZE, W16(2) \o W16(1)),
     ReverseCmd(1, REVERSE_CHUNKED + REVERSE_32BIT, W16(2))}

CatShare == {ShareSetup} \cup CatCopies \cup CatReverse

FeedShare == Feed(CatShare, MaxCmds)

\* buffer 6 jumps to buffer 7 and buffer 8 ends in a CALL of buffer 7;
\* buffer 7 sets the first byte of "this buffer" (65535) to 0 and goes on
CurrentSetup ==
    Write(6, Jump(7))
    \o Write(7, Adjust(ReservedId, ADJUST_SET, W16(0) \o <<0>>) \o Write(9, <<1>>))
    \o Write(8, Call(7))

CatCurrent == {CurrentSetup, Call(6), Call(7), Call(8), Write(6, <<0>>)}

FeedCurrent == Feed(CatCurrent, MaxCmds)

SetOutput(bufferId) == Hdr(bufferId, BUFFERED_SET_OUTPUT)

\* buffer 1 appends a byte to buffer 9; buffer 2 calls buffer 1 and goes on;
\* buffer 3 switches its output off, calls buffer 1 and goes on; buffer 4
\* jumps to buffer 1
NestSetup ==
    Write(1, Write(9, <<1>>))
    \o Write(2, Call(1) \o Write(8, <<2>>))
    \o Write(3, SetOutput(ReservedId) \o Call(1) \o Write(8, <<3>>))
    \o Write(4, Jump(1) \o Write(8, <<4>>))

\* every JUMP variant sent on the serial input and followed by another
\* command: to a buffer, past the CALL of buffer 2, with a condition that
\* holds and one that does not, to the end (65535) and to a buffer that
\* does not exist (5); calls of the nesting buffers, also with the
\* top-level output redirected to buffer 1 and reset
CatNest ==
    {NestSetup,
     Jump(1) \o Write(8, <<5>>),
     Hdr(1, BUFFERED_COND_JUMP) \o CondInline(COND_EXISTS, 1, 0, 0) \o Write(8, <<6>>),
     Hdr(2, BUFFERED_OFFSET_JUMP) \o W24(6) \o Write(8, <<7>>),
     Hdr(1, BUFFERED_OFFSET_COND_JUMP) \o W24(0)
         \o CondInline(COND_NOT_EXISTS, 1, 0, 0) \o Write(8, <<8>>),
     Hdr(1, BUFFERED_OFFSET_JUMP) \o <<0>>,
     Jump(ReservedId) \o Write(8, <<9>>),
     Jump(5) \o Write(8, <<10>>),
     Call(2), Call(3), Call(4),
     SetOutput(1) \o Call(2) \o SetOutput(0)}

FeedNest == Feed(CatNest, MaxCmds)

\* offset; with the top bit set, followed by blockIndex;
AdvOffset(blockIndex, blockOffset) == W24(8388608 + blockOffset) \o W16(blockIndex)

\* buffer 1 in blocks of 2, 0 and 1 bytes; buffer 4 the one-byte command VDU 0
ByteSetup ==
    Write(1, <<10, 11>>) \o Write(1, <<>>) \o Write(1, <<12>>) \o Write(4, <<0>>)

\* block index and block offset of the bytes addressed
ByteOffsets == (0..3) \X (0..2)

ByteValues == {11, 12}

\* ADJUST ADD 1 to the byte of buffer 1 at an advanced offset
ByteAdd(p) ==
    Adjust(1, ADJUST_ADD + ADJUST_ADVANCED_OFFSETS, AdvOffset(p[1], p[2]) \o <<1>>)

\* COND_CALL of buffer 4 if the byte of buffer 1 at an advanced offset is v
ByteTest(p, v) ==
    Hdr(4, BUFFERED_COND_CALL) \o <<COND_EQUAL + COND_ADVANCED_OFFSETS>> \o W16(1)
    \o AdvOffset(p[1], p[2]) \o <<v>>

CatByte ==
    {ByteSetup}
    \cup {ByteAdd(p) : p \in ByteOffsets}
    \cup {ByteTest(p, v) : p \in ByteOffsets, v \in ByteValues}

FeedByte == Feed(CatByte, MaxCmds)

\* buffer 1 of two blocks, buffers 2 and 3 of one; buffer 5 jumps to a
\* buffer that does not exist (20) and goes on
MissingSetup ==
    Write(1, <<1, 2>>) \o Write(1, <<3>>) \o Write(2, <<4>>) \o Write(3, <<5>>)
    \o Write(5, Jump(20) \o Call(20) \o Hdr(20, BUFFERED_REVERSE_BLOCKS))

\* commands whose operand buffer or check buffer (20, 21) does not exist
CatMissingOperand ==
    {Adjust(1, ADJUST_ADD + ADJUST_BUFFER_VALUE, W16(0) \o W16(21) \o W16(0)),
     Hdr(2, BUFFERED_COND_CALL) \o CondInline(COND_EXISTS, 20, 0, 0),
     Hdr(2, BUFFERED_COND_JUMP) \o CondFrom(COND_EQUAL, 1, 0, 21, 0),
     Hdr(2, BUFFERED_OFFSET_COND_CALL) \o W24(0) \o CondInline(COND_NOT_EXISTS, 20, 0, 0),
     Hdr(2, BUFFERED_OFFSET_COND_JUMP) \o W24(0) \o CondFrom(COND_LESS, 1, 0, 21, 0)}

\* commands on the buffer 20 that does not exist
CatMissingTarget ==
    {Call(20), Jump(20), Call(5),
     Hdr(20, BUFFERED_OFFSET_CALL) \o W24(0),
     Hdr(20, BUFFERED_OFFSET_JUMP) \o W24(0),
     Adjust(20, ADJUST_SET, W16(0) \o <<9>>),
     Hdr(20, BUFFERED_CONSOLIDATE),
     Hdr(20, BUFFERED_SPLIT) \o W16(1),
     Hdr(20, BUFFERED_SPLIT_INTO) \o W16(1) \o IdList(<<1>>),
     Hdr(20, BUFFERED_SPLIT_FROM) \o W16(1) \o W16(1),
     Hdr(20, BUFFERED_SPLIT_BY) \o W16(1) \o W16(2),
     Hdr(20, BUFFERED_SPLIT_BY_INTO) \o W16(1) \o IdList(<<1, 2>>),
     Hdr(20, BUFFERED_SPLIT_BY_FROM) \o W16(1) \o W16(2) \o W16(1),
     Hdr(20, BUFFERED_SPREAD_INTO) \o IdList(<<1>>),
     Hdr(20, BUFFERED_SPREAD_FROM) \o W16(1),
     Hdr(20, BUFFERED_REVERSE_BLOCKS),
     ReverseCmd(20, 0, <<>>)}

\* copies with a source that does not exist: alone, and after one that does
CatMissingSource ==
    {Copy(3, <<20>>), CopyRef(3, <<20>>),
     Hdr(3, BUFFERED_COPY_AND_CONSOLIDATE) \o IdList(<<20>>),
     Copy(3, <<2, 20>>), CopyRef(4, <<1, 20>>),
     Hdr(3, BUFFERED_COPY_AND_CONSOLIDATE) \o IdList(<<20, 1>>)}

CatMissing ==
    {MissingSetup} \cup CatMissingOperand \cup CatMissingTarget \cup CatMissingSource

FeedMissing == Feed(CatMissing, MaxCmds)

\* buffer 1 of two blocks, buffers 2 and 3 of one block
AllocSetup == Write(1, <<1, 2>>) \o Write(1, <<3>>) \o Write(2, <<4>>) \o Write(3, <<5>>)

\* the commands that allocate, on these buffers
CatAlloc ==
    {AllocSetup,
     Copy(3, <<1, 2>>),
     Hdr(3, BUFFERED_COPY_AND_CONSOLIDATE) \o IdList(<<1>>),
     Hdr(1, BUFFERED_CONSOLIDATE),
     Hdr(1, BUFFERED_SPLIT) \o W16(1),
     Hdr(1, BUFFERED_SPLIT_INTO) \o W16(2) \o IdList(<<2, 3>>),
     Hdr(1, BUFFERED_SPLIT_FROM) \o W16(2) \o W16(2),
     Hdr(1, BUFFERED_SPLIT_BY) \o W16(1) \o W16(2),
     Hdr(1, BUFFERED_SPLIT_BY_INTO) \o W16(1) \o IdList(<<2, 3>>),
     Hdr(1, BUFFERED_SPLIT_BY_FROM) \o W16(1) \o W16(2) \o W16(2)}

FeedAlloc == Feed(CatAlloc, MaxCmds)

FeedBlocks == Feed(CatBlocks, MaxCmds)

\* the whole interpreter
Next ==
    \/ FeedAll
    \/ Return
    \/ vdu_other
    \/ BufferedShort
    \/ BufferedWrite
    \/ BufferedCall
    \/ BufferedClear
    \/ BufferedCreate
    \/ BufferedSetOutput
    \/ BufferedAdjust
    \/ BufferedCondCall
    \/ BufferedJump
    \/ BufferedCondJump
    \/ BufferedOffsetJump
    \/ BufferedOffsetCondJump
    \/ BufferedOffsetCall
    \/ BufferedOffsetCondCall
    \/ BufferedCopy
    \/ BufferedConsolidate
    \/ BufferedSplit
    \/ BufferedSplitInto
    \/ BufferedSplitFrom
    \/ BufferedSplitBy
    \/ BufferedSplitByInto
    \/ BufferedSplitByFrom
    \/ BufferedSpreadInto
    \/ BufferedSpreadFrom
    \/ BufferedReverseBlocks
    \/ BufferedReverse
    \/ BufferedCopyRef
    \/ BufferedCopyAndConsolidate
    \/ BufferedDebugInfo
    \/ BufferedUnknown
    \/ AudioShort
    \/ AudioSampleLoad
    \/ AudioSampleClear
    \/ AudioSampleFromBuffer

Spec == Init /\ [][Next]_vars

\* WRITE, CREATE, CLEAR and the sample commands
NextStore ==
    \/ FeedStore
    \/ Return
    \/ BufferedWrite
    \/ BufferedCall
    \/ BufferedClear
    \/ BufferedCreate
    \/ BufferedDebugInfo
    \/ AudioSampleLoad
    \/ AudioSampleClear
    \/ AudioSampleFromBuffer

SpecStore == Init /\ [][NextStore]_vars

\* the writer commands aimed at 65535, at top level and nested
NextTarget ==
    \/ FeedTarget
    \/ Return
    \/ vdu_other
    \/ BufferedWrite
    \/ BufferedCall
    \/ BufferedCreate
    \/ BufferedAdjust
    \/ BufferedCopy
    \/ BufferedConsolidate
    \/ BufferedSplit
    \/ BufferedSplitInto
    \/ BufferedSplitFrom
    \/ BufferedSplitBy
    \/ BufferedSplitByInto
    \/ BufferedSplitByFrom
    \/ BufferedSpreadInto
    \/ BufferedSpreadFrom
    \/ BufferedReverseBlocks
    \/ BufferedReverse
    \/ BufferedCopyRef
    \/ BufferedCopyAndConsolidate

SpecTarget == Init /\ [][NextTarget]_vars

\* programs that call and jump
NextCall ==
    \/ FeedCall
    \/ Return
    \/ BufferedWrite
    \/ BufferedCall
    \/ BufferedJump
    \/ BufferedCondJump
    \/ BufferedOffsetJump

SpecCall == Init /\ [][NextCall]_vars

\* add-with-carry on buffers that may share blocks
NextAdjust ==
    \/ FeedAdjust
    \/ Return
    \/ BufferedWrite
    \/ BufferedCall
    \/ BufferedAdjust
    \/ BufferedCopyRef

SpecAdjust == Init /\ [][NextAdjust]_vars

\* the conditional commands
NextCond ==
    \/ FeedCond
    \/ Return
    \/ vdu_other
    \/ BufferedWrite
    \/ BufferedCall
    \/ BufferedCondCall
    \/ BufferedCondJump
    \/ BufferedOffsetCondCall
    \/ BufferedOffsetCondJump

SpecCond == Init /\ [][NextCond]_vars

\* CONSOLIDATE, SPLIT and SPLIT_BY in place
NextBlocks ==
    \/ FeedBlocks
    \/ BufferedWrite
    \/ BufferedCopyRef
    \/ BufferedConsolidate
    \/ BufferedSplit
    \/ BufferedSplitBy

SpecBlocks == Init /\ [][NextBlocks]_vars

\* COPY, COPY_REF, ADJUST and REVERSE over buffers that share blocks
NextShare ==
    \/ FeedShare
    \/ BufferedWrite
    \/ BufferedCopy
    \/ BufferedCopyRef
    \/ BufferedAdjust
    \/ BufferedReverse

SpecShare == Init /\ [][NextShare]_vars

\* buffers that name "this buffer" after a jump and after a tail call
NextCurrent ==
    \/ FeedCurrent
    \/ Return
    \/ BufferedWrite
    \/ BufferedCall
    \/ BufferedJump
    \/ BufferedAdjust

SpecCurrent == Init /\ [][NextCurrent]_vars

\* calls and jumps, nested and on the serial input, with output redirection
NextNest ==
    \/ FeedNest
    \/ Return
    \/ BufferedWrite
    \/ BufferedCall
    \/ BufferedJump
    \/ BufferedCondJump
    \/ BufferedOffsetJump
    \/ BufferedOffsetCondJump
    \/ BufferedSetOutput

SpecNest == Init /\ [][NextNest]_vars

\* single bytes read and written at advanced offsets
NextByte ==
    \/ FeedByte
    \/ Return
    \/ vdu_other
    \/ BufferedWrite
    \/ BufferedAdjust
    \/ BufferedCondCall

SpecByte == Init /\ [][NextByte]_vars

\* every command that reads a buffer, sent with ids that do not exist
NextMissing ==
    \/ FeedMissing
    \/ Return
    \/ BufferedWrite
    \/ BufferedCall
    \/ BufferedJump
    \/ BufferedCondCall
    \/ BufferedCondJump
    \/ BufferedOffsetCall
    \/ BufferedOffsetJump
    \/ BufferedOffsetCondCall
    \/ BufferedOffsetCondJump
    \/ BufferedAdjust
    \/ BufferedCopy
    \/ BufferedCopyRef
    \/ BufferedCopyAndConsolidate
    \/ BufferedConsolidate
    \/ BufferedSplit
    \/ BufferedSplitInto
    \/ BufferedSplitFrom
    \/ BufferedSplitBy
    \/ BufferedSplitByInto
    \/ BufferedSplitByFrom
    \/ BufferedSpreadInto
    \/ BufferedSpreadFrom
    \/ BufferedReverseBlocks
    \/ BufferedReverse

SpecMissing == Init /\ [][NextMissing]_vars

\* the commands that allocate blocks, with and without an allocation that
\* fails
NextAlloc ==
    \/ FeedAlloc
    \/ BufferedWrite
    \/ BufferedCopy
    \/ BufferedCopyNoMemory
    \/ BufferedCopyAndConsolidate
    \/ BufferedCopyAndConsolidateNoMemory
    \/ BufferedConsolidate
    \/ BufferedConsolidateNoMemory
    \/ BufferedSplit
    \/ BufferedSplitNoMemory
    \/ BufferedSplitInto
    \/ BufferedSplitIntoNoMemory
    \/ BufferedSplitFrom
    \/ BufferedSplitFromNoMemory
    \/ BufferedSplitBy
    \/ BufferedSplitByNoMemory
    \/ BufferedSplitByInto
    \/ BufferedSplitByIntoNoMemory
    \/ BufferedSplitByFrom
    \/ BufferedSplitByFromNoMemory

SpecAlloc == Init /\ [][NextAlloc]_vars

----------------------------------------------------------------------------
(* Properties.  `last` is the command the latest step executed, `pre` the  *)
(* stores just before it.                                                  *)

\* the bytes of each block of a list
Bytes(blocks, h) == [i \in 1..Len(blocks) |-> h[blocks[i]]]

\* buffer k has the same blocks, with the same bytes, as before the step
SameBuffer(k) ==
    /\ k \in DOMAIN buffers
    /\ k \in DOMAIN pre.buffers
    /\ buffers[k] = pre.buffers[k]
    /\ Bytes(buffers[k], heap) = Bytes(pre.buffers[k], pre.heap)

\* no buffer's block list and no block's bytes changed, no key came or went
BuffersUnchanged ==
    /\ DOMAIN buffers = DOMAIN pre.buffers
    /\ \A k \in DOMAIN buffers : SameBuffer(k)

\* sample k is as it was before the step, block references and bytes included
SameSample(k) ==
    /\ k \in DOMAIN samples
    /\ k \in DOMAIN pre.samples
    /\ samples[k] = pre.samples[k]
    /\ Bytes(samples[k].blocks, heap) = Bytes(pre.samples[k].blocks, pre.heap)

SamplesUnchanged ==
    /\ DOMAIN samples = DOMAIN pre.samples
    /\ \A k \in DOMAIN samples : SameSample(k)

\* the latest step was a jump command that was taken
JumpTaken(ops) == last.op \in ops /\ last.arg.taken

\* the stack is as before the step but for the running interpreter's stream
OnlyTopMoved ==
    /\ Len(stack) = Len(pre.stack)
    /\ \A i \in 1..(Len(stack) - 1) : stack[i] = pre.stack[i]
    /\ stack[Len(stack)].id = pre.stack[Len(stack)].id

\* C1: in every reachable state 65535 is not a key of the buffer store
C1_NoReservedKey == ReservedId \notin DOMAIN buffers

\* C2: a WRITE to an id other than 65535 whose bytes all arrive appends
\* exactly one new block holding those bytes at the end of the buffer: the
\* total size grows by the length, the earlier blocks keep position and
\* bytes, and no other buffer changes
C2_WriteAppends ==
    (last.op = "WRITE" /\ last.ret = 0 /\ last.id # ReservedId) =>
        LET id == last.id
            old == At(pre.buffers, id)
        IN  /\ DOMAIN buffers = DOMAIN pre.buffers \cup {id}
            /\ Len(buffers[id]) = Len(old) + 1
            /\ SubSeq(buffers[id], 1, Len(old)) = old
            /\ Bytes(old, heap) = Bytes(old, pre.heap)
            /\ buffers[id][Len(old) + 1] \notin DOMAIN pre.heap
            /\ heap[buffers[id][Len(old) + 1]] = last.arg.data
            /\ Len(last.arg.data) = last.arg.length
            /\ TotalSize(buffers[id], heap) = TotalSize(old, pre.heap) + last.arg.length
            /\ \A k \in DOMAIN pre.buffers \ {id} : SameBuffer(k)

\* a WRITE appended a second block while another buffer existed
C2_Witness ==
    /\ last.op = "WRITE" /\ last.ret = 0 /\ last.id # ReservedId
    /\ At(pre.buffers, last.id) # <<>>
    /\ DOMAIN pre.buffers \ {last.id} # {}
    /\ Len(buffers[last.id]) = Len(pre.buffers[last.id]) + 1

\* C3: a WRITE for which fewer bytes than announced can be read returns the
\* positive number of missing bytes and leaves the store as it was: no block
\* is appended and no key is created
C3_PartialWrite ==
    (last.op = "WRITE" /\ last.ret # NoValue
                       /\ Len(last.arg.data) < last.arg.length) =>
        /\ last.ret = last.arg.length - Len(last.arg.data)
        /\ last.ret > 0
        /\ BuffersUnchanged
        /\ SamplesUnchanged
        /\ DOMAIN heap = DOMAIN pre.heap

\* a nested WRITE ran out of bytes and its id is still not a key
C3_Witness ==
    /\ last.op = "WRITE" /\ last.ret > 0
    /\ last.depth >= 1
    /\ last.id \notin DOMAIN buffers
    /\ DOMAIN buffers # {}

\* the commands that copy into, create or write the buffer they name
TargetOps == {"WRITE", "CREATE", "COPY", "COPY_REF", "COPY_AND_CONSOLIDATE"}

\* the commands that change the buffer they name in place
InPlaceOps == {"CONSOLIDATE", "SPLIT", "SPLIT_BY", "REVERSE_BLOCKS", "REVERSE"}

\* the latest command named 65535 where its targets start
ReservedTarget ==
    \/ last.op \in TargetOps /\ last.id = ReservedId
    \/ last.op \in {"SPLIT_FROM", "SPLIT_BY_FROM", "SPREAD_FROM"}
       /\ last.arg.targetStart = ReservedId
    \/ last.op \in {"SPLIT_INTO", "SPLIT_BY_INTO", "SPREAD_INTO"}
       /\ last.ret = NoValue /\ last.arg.ids = <<>>

C5_Create ==
    (last.op = "CREATE" /\ last.ret # NoValue) =>
        IF last.id # ReservedId /\ last.id \notin DOMAIN pre.buffers
        THEN /\ last.ret = 1
             /\ DOMAIN buffers = DOMAIN pre.buffers \cup {last.id}
             /\ Bytes(buffers[last.id], heap) = <<Zeros(last.arg.size)>>
             /\ \A k \in DOMAIN pre.buffers : SameBuffer(k)
        ELSE /\ last.ret = 0
             /\ BuffersUnchanged

\* CREATE failed on a key whose block list is empty
C5_Witness ==
    /\ last.op = "CREATE" /\ last.ret = 0
    /\ last.id \in DOMAIN pre.buffers
    /\ pre.buffers[last.id] = <<>>
    /\ buffers[last.id] = <<>>

C7_ClearAllDropsSamples ==
    (last.op = "CLEAR" /\ last.id = ReservedId) =>
        /\ DOMAIN buffers = {}
        /\ DOMAIN samples = {}

\* CLEAR 65535 ran on a store with buffers and samples
C7_Witness ==
    /\ last.op = "CLEAR" /\ last.id = ReservedId
    /\ DOMAIN pre.buffers # {}
    /\ DOMAIN pre.samples # {}
    /\ DOMAIN buffers = {}

\* C7 as stated: after CLEAR 65535 the buffer store has no keys and every
\* sample that existed still exists with its block references
C7_Original ==
    (last.op = "CLEAR" /\ last.id = ReservedId) =>
        /\ DOMAIN buffers = {}
        /\ \A k \in DOMAIN pre.samples : SameSample(k)

\* a buffer that is one CALL and nothing else
ChainLink(bytes) ==
    Len(bytes) = 6 /\ IsBufferedCmd(bytes) /\ CmdOp(bytes) = BUFFERED_CALL

\* buffer k is a single block holding exactly these bytes
Holds(b, h, k, bytes) == k \in DOMAIN b /\ Bytes(b[k], h) = <<bytes>>

\* buffers 2, 3 and 4 form the chain 2 -> 3 -> 4, buffer 4 writing the mark
ChainStored(b, h) ==
    /\ Holds(b, h, 2, Call(3))
    /\ Holds(b, h, 3, Call(4))
    /\ Holds(b, h, 4, WriteMark)

JumpOps == {"JUMP", "COND_JUMP", "OFFSET_JUMP", "OFFSET_COND_JUMP"}

\* C9: in a nested interpreter a jump that is taken to an existing buffer T
\* other than the buffer the interpreter is reading replaces the input stream
\* by one over T's blocks at the given offset (0 when none is given): what
\* follows the jump in the old stream is dropped, the next command read is
\* T's, and the depth and the callers do not change
C9_JumpReplaces ==
    (/\ JumpTaken(JumpOps) /\ last.depth >= 1
     /\ last.id # ReservedId /\ last.id # last.src
     /\ last.id \in DOMAIN pre.buffers)
        => /\ OnlyTopMoved
           /\ stack[Len(stack)].blocks = pre.buffers[last.id]
           /\ stack[Len(stack)].pos =
                 seekTo(pre.buffers[last.id], pre.heap,
                        last.arg.offset.blockOffset, last.arg.offset.blockIndex)
           /\ Rem = Drop(Flat(buffers[last.id], heap), stack[Len(stack)].pos)
           /\ BuffersUnchanged

\* the jump of buffer 14 back to buffer 13, the buffer the interpreter was
\* called on, left the stream over buffer 14
C9_StaleId ==
    /\ JumpTaken(JumpOps) /\ last.depth >= 1
    /\ last.id = last.cur /\ last.id # last.src
    /\ last.id \in DOMAIN pre.buffers
    /\ stack[Len(stack)].blocks = pre.buffers[last.src]
    /\ stack[Len(stack)].blocks # pre.buffers[last.id]

\* the caller of every nested interpreter stands right after a CALL
CallersAfterCall ==
    \A i \in 1..(Len(stack) - (IF last.op = "RETURN" THEN 0 ELSE 1)) :
        /\ stack[i].pos >= 6
        /\ ChainLink(SubSeq(Flat(stack[i].blocks, heap),
                            stack[i].pos - 5, stack[i].pos))

\* C10: in a nested interpreter a JUMP or true COND_JUMP to 65535 leaves
\* the store unchanged and the running stream at its end, so that no further
\* command of the buffer is read and the interpreter returns to its caller,
\* which stands at the byte after its CALL; at top level the command does
\* nothing
C10_JumpToEnd ==
    /\ (JumpTaken({"JUMP", "COND_JUMP"}) /\ last.id = ReservedId)
           => /\ BuffersUnchanged
              /\ SamplesUnchanged
              /\ Len(stack) = last.depth
              /\ last.depth >= 1
                   => /\ OnlyTopMoved
                      /\ stack[Len(stack)].blocks = pre.stack[Len(stack)].blocks
                      /\ Rem = <<>>
    /\ (last.op = "RETURN")
           => stack = SubSeq(pre.stack, 1, Len(pre.stack) - 1)
    /\ CallersAfterCall

\* a JUMP to 65535 with commands after it ended a buffer that was called
\* from another buffer
C10_Witness ==
    /\ last.op = "JUMP" /\ last.id = ReservedId
    /\ last.depth = 2
    /\ ~last.arg.tail
    /\ Rem = <<>>
    /\ Len(stack) = 2
    /\ stack[1].pos < TotalSize(stack[1].blocks, heap)

----------------------------------------------------------------------------
(* Add-with-carry (C11, C12).                                              *)

\* the value of a sequence of bytes read as a little-endian integer
RECURSIVE LittleEndian(_)
LittleEndian(s) == IF s = <<>> THEN 0 ELSE Head(s) + 256 * LittleEndian(Tail(s))

\* the stored byte (block, index in the block) at position pos of a buffer
RECURSIVE CellAt(_, _, _)
CellAt(blocks, h, pos) ==
    IF pos < Len(h[Head(blocks)]) THEN <<Head(blocks), pos>>
    ELSE CellAt(Tail(blocks), h, pos - Len(h[Head(blocks)]))

\* the stored bytes at positions pos .. pos + n - 1 of a buffer
CellsAt(blocks, h, pos, n) == [j \in 1..n |-> CellAt(blocks, h, pos + j - 1)]

\* the position in a buffer that an offset names
LinearOffset(blocks, h, offset) ==
    SizeBefore(blocks, h, offset.blockIndex) + offset.blockOffset

\* the arguments of the ADJUST that the latest step executed
AdcCommand == AdjustCommand(last.arg.bytes, ArgAt)

AdcArgs == AdjustTarget(AdcCommand, last.arg.bytes, ArgAt + 1)

AdcOperand == AdjustOperandBuffer(AdcCommand, last.cur, last.arg.bytes, AdcArgs.next)

\* its target buffer, first position and count
AdcBlocks == pre.buffers[resolveBufferId(last.id, last.cur)]

AdcAt == LinearOffset(AdcBlocks, pre.heap, AdcArgs.offset)

AdcCount == AdcArgs.count

\* the operands an ADJUST reads one per iteration: n bytes of the operand
\* buffer, or the n bytes that follow the arguments in the stream
AdcOperandBlocks == pre.buffers[AdcOperand.bufferId]

AdcOperandAt == LinearOffset(AdcOperandBlocks, pre.heap, AdcOperand.offset)

AdcOperandBytes(n) ==
    IF AdcCommand.fromBuffer
    THEN SubSeq(Flat(AdcOperandBlocks, pre.heap), AdcOperandAt + 1, AdcOperandAt + n)
    ELSE SubSeq(last.arg.bytes, AdcOperand.next, AdcOperand.next + n - 1)

\* the latest step was an add-with-carry over several target bytes (with one
\* operand per byte, or with one operand for all) whose positions p .. p + N
\* are all in the target buffer and whose operands could all be read
AdcApplies(each) ==
    /\ last.op = "ADJUST"
    /\ AdcCommand.command # NoValue
    /\ AdcCommand.op = ADJUST_ADD_CARRY
    /\ AdcCommand.useMultiTarget
    /\ AdcCommand.useMultiOperand = each
    /\ AdcCount # NoValue /\ AdcCount >= 1
    /\ AdcArgs.offset.blockOffset # NoValue
    /\ resolveBufferId(last.id, last.cur) \in DOMAIN pre.buffers
    /\ AdcArgs.offset.blockIndex < Len(AdcBlocks)
    /\ AdcAt + AdcCount < TotalSize(AdcBlocks, pre.heap)
    /\ IF AdcCommand.fromBuffer
       THEN /\ AdcOperand.bufferId \in DOMAIN pre.buffers
            /\ AdcOperand.offset.blockOffset # NoValue
            /\ AdcOperand.offset.blockIndex < Len(AdcOperandBlocks)
            /\ AdcOperandAt + (IF each THEN AdcCount ELSE 1)
                   <= TotalSize(AdcOperandBlocks, pre.heap)
       ELSE Len(last.arg.bytes) >= AdcOperand.next + (IF each THEN AdcCount ELSE 1) - 1

\* the stored bytes the command reads as sources and writes
AdcCells == CellsAt(AdcBlocks, pre.heap, AdcAt, AdcCount + 1)

\* the stored bytes it reads as operands: bytes of the operand buffer, or
\* bytes of the buffer a nested interpreter is reading (none at top level)
AdcOperandCells(n) ==
    IF AdcCommand.fromBuffer
    THEN Range(CellsAt(AdcOperandBlocks, pre.heap, AdcOperandAt, n))
    ELSE IF last.depth = 0 THEN {}
    ELSE Range(CellsAt(pre.stack[last.depth].blocks, pre.heap,
                       pre.stack[last.depth].pos + AdcOperand.next - 1, n))

\* the target positions are different stored bytes and no operand is one of
\* them
AdcDisjoint(n) ==
    /\ \A i, j \in DOMAIN AdcCells : i # j => AdcCells[i] # AdcCells[j]
    /\ AdcOperandCells(n) \cap Range(AdcCells) = {}

\* the N + 1 bytes at p .. p + N after the command, and the N bytes at
\* p .. p + N - 1 before it
AdcAfter ==
    SubSeq(Flat(buffers[resolveBufferId(last.id, last.cur)], heap),
           AdcAt + 1, AdcAt + AdcCount + 1)

AdcBefore == SubSeq(Flat(AdcBlocks, pre.heap), AdcAt + 1, AdcAt + AdcCount)

\* C11: after an ADJUST with op ADC, MULTI_TARGET and MULTI_OPERAND and count
\* N >= 1 at a position p with p .. p + N inside the target buffer, where
\* these positions are N + 1 different stored bytes and no operand byte is
\* one of them, the N + 1 bytes at p .. p + N read as a little-endian integer
\* are the little-endian integer of the N original bytes plus that of the N
\* operand bytes
C11_AdcSum ==
    (AdcApplies(TRUE) /\ AdcDisjoint(AdcCount))
        => LittleEndian(AdcAfter)
             = LittleEndian(AdcBefore) + LittleEndian(AdcOperandBytes(AdcCount))

\* an add-with-carry of two operands from buffer 2 carried out of its last
\* byte: FF 00 + 01 FF = 00 00 with carry 01
C11_Witness ==
    /\ AdcApplies(TRUE) /\ AdcDisjoint(AdcCount)
    /\ AdcCommand.fromBuffer
    /\ AdcCount = 2
    /\ AdcBefore = <<255, 0>>
    /\ AdcOperandBytes(2) = <<1, 255>>
    /\ AdcAfter = <<0, 0, 1>>

\* C11 as stated: the sum for every ADJUST with op ADC, MULTI_TARGET and
\* MULTI_OPERAND whose positions p .. p + N are in the target buffer
C11_Original ==
    AdcApplies(TRUE)
        => LittleEndian(AdcAfter)
             = LittleEndian(AdcBefore) + LittleEndian(AdcOperandBytes(AdcCount))

\* the integer in which every byte is v: v * (1 + 256 + ... + 256^(n-1))
RECURSIVE Repeated(_, _)
Repeated(v, n) == IF n = 0 THEN 0 ELSE v + 256 * Repeated(v, n - 1)

\* 256^n
RECURSIVE Pow256(_)
Pow256(n) == IF n = 0 THEN 1 ELSE 256 * Pow256(n - 1)

\* C12: after an ADJUST with op ADC and MULTI_TARGET, a single operand byte v
\* and count N (target positions different stored bytes, the operand not one
\* of them), the operand has been added to each of the N target bytes with
\* the carry running from byte to byte: the N + 1 bytes at p .. p + N read as
\* a little-endian integer are the original N-byte value plus
\* v * (1 + 256 + ... + 256^(N-1)), the byte at p + N being the final carry
C12_AdcEveryByte ==
    (AdcApplies(FALSE) /\ AdcDisjoint(1))
        => LittleEndian(AdcAfter)
             = LittleEndian(AdcBefore) + Repeated(AdcOperandBytes(1)[1], AdcCount)

\* FF 00 00 with v = 01 and N = 3 became 00 02 01 with carry 00
C12_Witness ==
    /\ AdcApplies(FALSE) /\ AdcDisjoint(1)
    /\ AdcCount = 3
    /\ AdcBefore = <<255, 0, 0>>
    /\ AdcOperandBytes(1) = <<1>>
    /\ AdcAfter = <<0, 2, 1, 0>>

\* C12 as stated: the N target bytes hold (original value + v) mod 256^N
C12_Original ==
    (AdcApplies(FALSE) /\ AdcDisjoint(1))
        => LittleEndian(SubSeq(AdcAfter, 1, AdcCount))
             = (LittleEndian(AdcBefore) + AdcOperandBytes(1)[1]) % Pow256(AdcCount)

----------------------------------------------------------------------------
(* Conditionals (C13).                                                     *)

CondOps == {"COND_CALL", "COND_JUMP", "OFFSET_COND_CALL", "OFFSET_COND_JUMP"}

\* where the conditional arguments of the latest command start: after the
\* offset in the OFFSET_ commands
CondStart ==
    IF last.op \in {"OFFSET_COND_CALL", "OFFSET_COND_JUMP"}
    THEN getOffsetFromStream(last.arg.bytes, ArgAt, TRUE).next
    ELSE ArgAt

\* the arguments as they stand in the command's bytes
CondFlags == readByte_t(last.arg.bytes, CondStart)

CondOp == CondFlags % (COND_OP_MASK + 1)

CondOperandFromBuffer == Bit(CondFlags, COND_BUFFER_VALUE) /\ CondOp > COND_NOT_EXISTS

CondCheckWord == readWord_t(last.arg.bytes, CondStart + 1)

CondCheckOffset ==
    getOffsetFromStream(last.arg.bytes, CondStart + 3,
                        Bit(CondFlags, COND_ADVANCED_OFFSETS))

CondOperandWord == readWord_t(last.arg.bytes, CondCheckOffset.next)

CondOperandOffset ==
    getOffsetFromStream(last.arg.bytes, CondCheckOffset.next + 2,
                        Bit(CondFlags, COND_ADVANCED_OFFSETS))

\* the latest command was a conditional whose operation and buffer
\* arguments were all in the stream
CondRead ==
    /\ last.op \in CondOps
    /\ last.ret # NoValue
    /\ CondFlags # NoValue
    /\ CondOp <= COND_OR
    /\ CondCheckWord # NoValue
    /\ CondCheckOffset.offset.blockOffset # NoValue
    /\ CondOperandFromBuffer
         => /\ CondOperandWord # NoValue
            /\ CondOperandOffset.offset.blockOffset # NoValue

\* buffer id (65535 being the interpreter's buffer) is not in the store, or
\* the offset names no byte of it
NotInStore(word) == resolveBufferId(word, last.cur) \notin DOMAIN pre.buffers

OutsideBuffer(word, offset) ==
    /\ ~NotInStore(word)
    /\ LET blocks == pre.buffers[resolveBufferId(word, last.cur)]
       IN  \/ offset.blockIndex >= Len(blocks)
           \/ LinearOffset(blocks, pre.heap, offset) >= TotalSize(blocks, pre.heap)

\* the call or jump did not happen: stores and callers are as before and the
\* running interpreter only moved past the bytes the command read
NotPerformed ==
    /\ ~last.arg.taken
    /\ BuffersUnchanged
    /\ Len(stack) = last.depth
    /\ last.depth >= 1
         => /\ OnlyTopMoved
            /\ stack[Len(stack)].blocks = pre.stack[Len(stack)].blocks
            /\ stack[Len(stack)].pos
                 = pre.stack[Len(stack)].pos + Len(last.arg.bytes)

\* C13: a conditional command, whatever its operation, whose checked buffer
\* is not in the store, whose checked offset is outside that buffer, whose
\* operand buffer is not in the store or whose operand offset is outside the
\* operand buffer evaluates to false, and the call or jump is not performed
C13_UnreadableIsFalse ==
    (/\ CondRead
     /\ \/ NotInStore(CondCheckWord)
        \/ OutsideBuffer(CondCheckWord, CondCheckOffset.offset)
        \/ CondOperandFromBuffer /\ NotInStore(CondOperandWord)
        \/ CondOperandFromBuffer
           /\ OutsideBuffer(CondOperandWord, CondOperandOffset.offset))
        => NotPerformed

\* in a called buffer, an OFFSET_COND_JUMP on NOT_EQUAL whose operand offset
\* is outside the existing operand buffer, the checked byte being readable,
\* was not taken
C13_Witness ==
    /\ CondRead
    /\ last.op = "OFFSET_COND_JUMP"
    /\ last.depth >= 1
    /\ CondOp = COND_NOT_EQUAL
    /\ ~NotInStore(CondCheckWord)
    /\ ~OutsideBuffer(CondCheckWord, CondCheckOffset.offset)
    /\ CondOperandFromBuffer
    /\ OutsideBuffer(CondOperandWord, CondOperandOffset.offset)
    /\ last.id \in DOMAIN pre.buffers
    /\ NotPerformed

----------------------------------------------------------------------------
(* CONSOLIDATE, SPLIT and SPLIT_BY (C14, C15, C20).                        *)

\* ceil(a / b)
CeilDiv(a, b) == (a + b - 1) \div b

\* the i-th piece (from 0) of `size` bytes of a byte sequence, the last one
\* possibly shorter
Piece(data, size, i) == SubSeq(data, i * size + 1, Min((i + 1) * size, Len(data)))

\* the content of the buffer a command names, before and after it
ContentBefore == Flat(pre.buffers[last.id], pre.heap)

ContentAfter == Flat(buffers[last.id], heap)

\* the latest command was CONSOLIDATE or SPLIT on an existing buffer
OnExisting(op) == last.op = op /\ last.ret # NoValue /\ last.id \in DOMAIN pre.buffers

\* C14: CONSOLIDATE keeps the content of the buffer, and SPLIT(id, k) with
\* k >= 1 on a buffer of total size T > 0 (as CONSOLIDATE leaves it, or in any
\* other block layout) leaves it with ceil(T/k) blocks, each of k bytes but
\* for a possibly shorter last one, whose concatenation is the content
\* before; so CONSOLIDATE followed by SPLIT gives these blocks of the
\* content before the two commands
C14_ConsolidateSplit ==
    /\ OnExisting("CONSOLIDATE") => ContentAfter = ContentBefore
    /\ (/\ OnExisting("SPLIT") /\ last.arg.length >= 1 /\ Len(ContentBefore) > 0)
          => /\ Len(buffers[last.id]) = CeilDiv(Len(ContentBefore), last.arg.length)
             /\ \A j \in 1..Len(buffers[last.id]) :
                    heap[buffers[last.id][j]]
                      = Piece(ContentBefore, last.arg.length, j - 1)
             /\ \A j \in 1..(Len(buffers[last.id]) - 1) :
                    Len(heap[buffers[last.id][j]]) = last.arg.length
             /\ ContentAfter = ContentBefore

\* SPLIT by 3 of the 8 bytes that CONSOLIDATE had just made one block left
\* blocks of 3, 3 and 2 bytes
C14_Witness ==
    /\ OnExisting("SPLIT")
    /\ last.arg.length = 3
    /\ Len(pre.buffers[last.id]) = 1
    /\ ContentBefore = <<160, 161, 176, 177, 162, 163, 178, 179>>
    /\ Bytes(buffers[last.id], heap) = <<<<160, 161, 176>>, <<177, 162, 163>>, <<178, 179>>>>

\* C15: CONSOLIDATE of an existing buffer with one or more blocks leaves it
\* one block holding the bytes of the former blocks in order; every other
\* buffer, those that share the former blocks included, keeps its block
\* list and its bytes
C15_Consolidate ==
    (OnExisting("CONSOLIDATE") /\ Len(pre.buffers[last.id]) >= 1)
        => /\ Len(buffers[last.id]) = 1
           /\ heap[buffers[last.id][1]] = ContentBefore
           /\ DOMAIN buffers = DOMAIN pre.buffers
           /\ \A k \in DOMAIN buffers \ {last.id} : SameBuffer(k)

\* CONSOLIDATE of the two-block buffer 1 while buffer 2 referred to the same
\* two blocks
C15_Witness ==
    /\ OnExisting("CONSOLIDATE")
    /\ last.id = 1
    /\ Len(pre.buffers[1]) = 2
    /\ 2 \in DOMAIN pre.buffers
    /\ pre.buffers[2] = pre.buffers[1]
    /\ Len(buffers[1]) = 1
    /\ Len(buffers[2]) = 2
    /\ buffers[1][1] \notin Range(buffers[2])

\* the concatenation of the pieces j, j + chunks, j + 2 * chunks, ...
RECURSIVE EveryNth(_, _, _, _)
EveryNth(data, width, chunks, j) ==
    IF j * width >= Len(data) THEN <<>>
    ELSE Piece(data, width, j) \o EveryNth(data, width, chunks, j + chunks)

\* C20: SPLIT_BY(id, width, chunks) in place, width >= 1 and chunks >= 1, on
\* an existing buffer with content, leaves it with exactly `chunks` blocks,
\* block j being the concatenation of the width-byte pieces j, j + chunks,
\* j + 2 * chunks, ... of the content before
C20_SplitBy ==
    (/\ OnExisting("SPLIT_BY")
     /\ last.arg.width >= 1 /\ last.arg.chunks >= 1
     /\ Len(ContentBefore) > 0)
        => /\ Len(buffers[last.id]) = last.arg.chunks
           /\ \A j \in 1..last.arg.chunks :
                  heap[buffers[last.id][j]]
                    = EveryNth(ContentBefore, last.arg.width, last.arg.chunks, j - 1)

\* A0 A1 B0 B1 A2 A3 B2 B3 in two blocks, width 2 and chunks 2, became
\* A0 A1 A2 A3 and B0 B1 B2 B3
C20_Witness ==
    /\ OnExisting("SPLIT_BY")
    /\ last.arg.width = 2 /\ last.arg.chunks = 2
    /\ Bytes(pre.buffers[last.id], pre.heap) = <<<<160, 161, 176, 177>>, <<162, 163, 178, 179>>>>
    /\ Bytes(buffers[last.id], heap) = <<<<160, 161, 162, 163>>, <<176, 177, 178, 179>>>>

----------------------------------------------------------------------------
(* Copies by reference and by value (C16, C17).  A block address names a   *)
(* block's storage: two list entries with the same address are the same    *)
(* storage, and an address of the stores before a step is never given to a *)
(* block made in that step.                                                *)

\* the blocks of the buffers of a list that exist, in list order, the ids
\* in `without` left out
RECURSIVE ListedBlocks(_, _, _)
ListedBlocks(b, ids, without) ==
    IF ids = <<>> THEN <<>>
    ELSE IF Head(ids) \in DOMAIN b /\ Head(ids) \notin without
    THEN b[Head(ids)] \o ListedBlocks(b, Tail(ids), without)
    ELSE ListedBlocks(b, Tail(ids), without)

\* the latest step was a copy command of this kind that had a list to copy
Copied(op) == last.op = op /\ last.ret = 0 /\ last.id # ReservedId

\* the latest step was an ADJUST or a REVERSE that worked on the stores
ChangedInPlace ==
    \/ last.op = "ADJUST"
    \/ last.op = "REVERSE" /\ last.ret = 0 /\ last.arg.outcome = "returns"

\* buffers k and x had a block in common before the step
Shared(k, x) ==
    /\ k \in DOMAIN pre.buffers
    /\ x \in DOMAIN pre.buffers
    /\ Range(pre.buffers[k]) \cap Range(pre.buffers[x]) # {}

\* the latest step was a plain SET of one byte at a position of its buffer
SetApplies ==
    /\ last.op = "ADJUST"
    /\ AdcCommand.command = ADJUST_SET
    /\ last.id \in DOMAIN pre.buffers
    /\ AdcArgs.offset.blockOffset # NoValue
    /\ AdcAt < TotalSize(AdcBlocks, pre.heap)
    /\ Len(last.arg.bytes) >= AdcOperand.next

\* the positions of buffer k that were the stored byte `cell` before the step
PositionsOf(k, cell) ==
    {q \in 0..(TotalSize(pre.buffers[k], pre.heap) - 1) :
        CellAt(pre.buffers[k], pre.heap, q) = cell}

\* C16: after COPY_REF the target's block list is the block lists of the
\* listed buffers that exist (the target itself left out), one after the
\* other in list order, as the same storage with the same bytes, and the
\* listed buffers are as before.  An ADJUST or a REVERSE allocates nothing:
\* every buffer keeps its blocks (the reversed buffer maybe in another
\* order), so a change made through one buffer is read through every buffer
\* that holds the block; a byte set through one buffer is read at every
\* position of every buffer that is the same stored byte.
C16_SharedStorage ==
    /\ Copied("COPY_REF") =>
           /\ last.id \in DOMAIN buffers
           /\ buffers[last.id]
                  = ListedBlocks(pre.buffers, last.arg.ids, {last.id})
           /\ \A a \in Range(buffers[last.id]) : heap[a] = pre.heap[a]
           /\ \A k \in DOMAIN pre.buffers \ {last.id} : SameBuffer(k)
    /\ ChangedInPlace =>
           /\ DOMAIN buffers = DOMAIN pre.buffers
           /\ \A k \in DOMAIN buffers :
                  /\ Range(buffers[k]) = Range(pre.buffers[k])
                  /\ Len(buffers[k]) = Len(pre.buffers[k])
                  /\ k # last.id => buffers[k] = pre.buffers[k]
    /\ SetApplies =>
           \A k \in DOMAIN buffers :
               \A q \in PositionsOf(k, CellAt(AdcBlocks, pre.heap, AdcAt)) :
                   Flat(buffers[k], heap)[q + 1] = AdcOperandBytes(1)[1]

\* C16 witness: a byte set through buffer 3, which holds the blocks of
\* buffers 1 and 2 by reference, is read through buffer 1
C16_Witness ==
    /\ SetApplies
    /\ last.id = 3
    /\ Shared(1, 3)
    /\ buffers[3] = buffers[1] \o buffers[2]
    /\ Flat(pre.buffers[1], pre.heap)[1] # 99
    /\ Flat(buffers[1], heap)[1] = 99

\* C17: after COPY the target's blocks have the sizes and bytes of the
\* blocks of the listed buffers that exist (the target's own blocks of
\* before when it is listed), in list order; each is new storage, held once
\* and by no other buffer or sample, and every other buffer is as before.
\* An ADJUST or a REVERSE leaves every buffer that shares no block with the
\* changed buffer as it was, so a change through the copy is not seen in a
\* source, nor one through a source in the copy.
C17_CopyIsDistinct ==
    /\ Copied("COPY") =>
           /\ last.id \in DOMAIN buffers
           /\ Bytes(buffers[last.id], heap)
                  = Bytes(ListedBlocks(pre.buffers, last.arg.ids, {}), pre.heap)
           /\ Range(buffers[last.id]) \cap DOMAIN pre.heap = {}
           /\ Cardinality(Range(buffers[last.id])) = Len(buffers[last.id])
           /\ \A k \in DOMAIN buffers \ {last.id} :
                  Range(buffers[k]) \cap Range(buffers[last.id]) = {}
           /\ \A k \in DOMAIN samples :
                  Range(samples[k].blocks) \cap Range(buffers[last.id]) = {}
           /\ \A k \in DOMAIN pre.buffers \ {last.id} : SameBuffer(k)
    /\ ChangedInPlace =>
           \A k \in DOMAIN pre.buffers :
               (k # last.id /\ ~Shared(k, last.id)) => SameBuffer(k)

\* C17 witness: buffer 3 is a copy of buffers 1 and 2; a byte set through it
\* leaves buffer 1 as it was
C17_Witness ==
    /\ SetApplies
    /\ last.id = 3
    /\ 1 \in DOMAIN buffers /\ 2 \in DOMAIN buffers
    /\ ~Shared(1, 3)
    /\ Bytes(pre.buffers[3], pre.heap)
           = Bytes(pre.buffers[1] \o pre.buffers[2], pre.heap)
    /\ Flat(buffers[3], heap)[1] = 99
    /\ Flat(buffers[1], heap)[1] # 99

----------------------------------------------------------------------------
(* REVERSE (C18, C19).                                                     *)

\* the options, value size and chunk size of the REVERSE of the latest step
RevBoth ==
    Bit(last.arg.options, REVERSE_16BIT) /\ Bit(last.arg.options, REVERSE_32BIT)

RevValueSize ==
    IF RevBoth THEN readWord_t(last.arg.bytes, ArgAt + 1)
    ELSE IF Bit(last.arg.options, REVERSE_32BIT) THEN 4
    ELSE IF Bit(last.arg.options, REVERSE_16BIT) THEN 2
    ELSE 1

RevChunkSize ==
    IF ~Bit(last.arg.options, REVERSE_CHUNKED) THEN 0
    ELSE readWord_t(last.arg.bytes, IF RevBoth THEN ArgAt + 3 ELSE ArgAt + 1)

\* the latest step was a REVERSE of an existing buffer that read its options
\* and sizes
Reversed ==
    /\ last.op = "REVERSE"
    /\ last.arg.options # NoValue
    /\ last.id \in DOMAIN pre.buffers
    /\ RevValueSize # NoValue
    /\ RevChunkSize # NoValue

\* the sizes of the blocks of the buffer before the REVERSE
RevSizes == [k \in DOMAIN pre.buffers[last.id] |-> Len(pre.heap[pre.buffers[last.id][k]])]

\* n is not a multiple of d
NotMultiple(n, d) == IF d = 0 THEN n # 0 ELSE n % d # 0

\* block k does not fit the value size or the (non-zero) chunk size
Misfit(k) ==
    \/ NotMultiple(RevSizes[k], RevValueSize)
    \/ RevChunkSize # 0 /\ NotMultiple(RevSizes[k], RevChunkSize)

\* the stores after the same REVERSE command is executed once more
RevAgain == bufferReverse(Now, last.id, last.arg.options, last.arg.bytes, ArgAt + 1).m

C19_AbortKeepsAll ==
    (Reversed /\ \E k \in DOMAIN RevSizes : Misfit(k)) => BuffersUnchanged

\* C19: the same for a value size of at least 1, where the two loops of
\* bufferReverse are defined
C19_AbortKeepsAllPositive ==
    (/\ Reversed
     /\ RevValueSize >= 1
     /\ \E k \in DOMAIN RevSizes : Misfit(k)) => BuffersUnchanged

\* C19: a REVERSE with REVERSE_BLOCK whose first block fits and whose second
\* block does not has been given up
C19_Aborted ==
    /\ Reversed
    /\ Bit(last.arg.options, REVERSE_BLOCK)
    /\ RevValueSize >= 1
    /\ Len(RevSizes) >= 2
    /\ ~Misfit(1)
    /\ Misfit(2)

\* C19 witness: a REVERSE with an explicit value size of 0 on a buffer with
\* blocks has ended in a restart, and the buffers are gone
C19_Restarted ==
    /\ Reversed
    /\ RevValueSize = 0
    /\ pre.buffers[last.id] # <<>>
    /\ last.arg.outcome = "restarts"
    /\ buffers = EmptyMap

----------------------------------------------------------------------------
(* The current buffer of a nested interpreter (C27).                       *)

\* the latest step was an ADJUST of "this buffer" in a nested interpreter
AdjustedCurrent ==
    /\ last.op = "ADJUST"
    /\ last.id = ReservedId
    /\ last.depth >= 1

\* C27: the id with which a nested interpreter resolves 65535 is the buffer
\* over whose blocks its input stream was made, and an ADJUST of 65535
\* changes no buffer but that one.
C27_CurrentIsRead ==
    /\ \A i \in DOMAIN stack : stack[i].id = stack[i].src
    /\ AdjustedCurrent =>
           \A k \in DOMAIN pre.buffers : k # last.src => SameBuffer(k)

\* C27 witness: an ADJUST of 65535 read from buffer 7, reached by a jump or
\* by a CALL at the end of another buffer, has changed that other buffer
C27_AdjustedCaller ==
    /\ AdjustedCurrent
    /\ last.src = 7
    /\ last.cur # 7
    /\ ~SameBuffer(last.cur)
    /\ SameBuffer(7)

----------------------------------------------------------------------------
(* Calls and jumps of nested interpreters (C28, C29)                       *)

StoresKept ==
    buffers = pre.buffers /\ heap = pre.heap /\ samples = pre.samples

\* the latest step was a jump read from the serial input
TopLevelJump == last.op \in JumpOps /\ last.depth = 0

\* the jump was taken and names a buffer that exists
JumpLands ==
    last.arg.taken /\ last.id # ReservedId /\ last.id \in DOMAIN pre.buffers

\* C29: a JUMP, COND_JUMP, OFFSET_JUMP or OFFSET_COND_JUMP read from the
\* serial input (interpreter id 65535) leaves the serial input in place, at
\* the byte after the command; when the jump is taken and its target exists
\* the target runs in one nested interpreter, as a CALL would run it, and
\* otherwise no interpreter is started; while a nested interpreter runs the
\* serial input is not read
C29_TopLevelJump ==
    /\ TopLevelJump =>
          /\ input = Drop(pre.input, Len(last.arg.bytes))
          /\ StoresKept
          /\ IF JumpLands
             THEN /\ Len(stack) = 1
                  /\ stack[1].id = last.id
                  /\ stack[1].blocks = pre.buffers[last.id]
                  /\ last.arg.offset = ZeroOffset => stack[1].pos = 0
                  /\ stack[1].outputStream = pre.outputStream
             ELSE stack = <<>>
    /\ last.depth >= 1 => input = pre.input

\* a jump on the serial input has started a nested interpreter and the
\* serial input still holds the command that follows it
C29_Witness ==
    /\ TopLevelJump /\ JumpLands
    /\ Len(stack) = 1
    /\ input # <<>>
    /\ input = Drop(pre.input, Len(last.arg.bytes))

\* the latest step was a CALL that was not in tail position (on the serial
\* input no CALL is) and names a buffer that exists
NestedCall ==
    /\ last.op = "CALL"
    /\ last.depth = 0 \/ ~last.arg.tail
    /\ last.id # ReservedId
    /\ last.id \in DOMAIN pre.buffers

\* the interpreter that read the latest command, advanced by n bytes
CallerAfter(n) == [pre.stack[last.depth] EXCEPT !.pos = @ + n]

\* C28: a CALL that is not in tail position starts one interpreter on top of
\* the caller, over the called buffer from its first byte and with the
\* caller's output stream, and leaves the caller at the byte after the CALL;
\* every command is read by the innermost interpreter, and no step changes
\* an interpreter below the one that read the command or, while one is
\* nested, the serial input: the caller goes on only when the callee and
\* everything it calls or jumps to has ended
C28_NestedCall ==
    /\ last.depth = Len(pre.stack)
    /\ \A i \in 1..(last.depth - 1) : i <= Len(stack) /\ stack[i] = pre.stack[i]
    /\ last.depth >= 1 => input = pre.input /\ Len(stack) >= last.depth - 1
    /\ last.op = "RETURN" => stack = SubSeq(pre.stack, 1, last.depth - 1)
    /\ NestedCall =>
          /\ Len(stack) = last.depth + 1
          /\ stack[Len(stack)].id = last.id
          /\ stack[Len(stack)].blocks = pre.buffers[last.id]
          /\ stack[Len(stack)].pos = 0
          /\ stack[Len(stack)].outputStream =
                (IF last.depth = 0 THEN pre.outputStream
                 ELSE pre.stack[last.depth].outputStream)
          /\ IF last.depth = 0 THEN input = Drop(pre.input, 6)
             ELSE stack[last.depth] = CallerAfter(6)
          /\ StoresKept

\* a buffer that has switched its output off has called another buffer
\* before its last command: the callee runs without output
C28_Witness ==
    /\ NestedCall
    /\ last.depth >= 1
    /\ pre.stack[last.depth].outputStream = NoOutput
    /\ Len(stack) = last.depth + 1
    /\ stack[Len(stack)].outputStream = NoOutput
    /\ stack[last.depth] = CallerAfter(6)

----------------------------------------------------------------------------
(* Bytes at advanced offsets (C30)                                         *)

\* the offset <<blockIndex, blockOffset>> is inside the buffer: the sizes of
\* the blocks before blockIndex plus blockOffset is below the total size
ByteValid(blocks, h, p) ==
    LinearOffset(blocks, h, Offset(p[1], p[2])) < TotalSize(blocks, h)

\* the bytes of the buffer with the one the offset names incremented
ByteAdded(blocks, h, p) ==
    [Flat(blocks, h) EXCEPT ![LinearOffset(blocks, h, Offset(p[1], p[2])) + 1] =
        (@ + 1) % 256]

\* the test of the byte at p against v is what the latest step executed
ByteTested(p, v) ==
    last.op = "COND_CALL" /\ last.arg.bytes = ByteTest(p, v) /\ 1 \in DOMAIN pre.buffers

ByteAdjusted(p) ==
    last.op = "ADJUST" /\ last.arg.bytes = ByteAdd(p) /\ 1 \in DOMAIN pre.buffers

\* every block has the size it had
SizesKept ==
    /\ DOMAIN heap = DOMAIN pre.heap
    /\ \A a \in DOMAIN heap : Len(heap[a]) = Len(pre.heap[a])

\* C30: a byte of a buffer at the advanced offset (i, o) is read exactly
\* when the sizes of blocks 0..i-1 plus o is below the buffer's total size,
\* and it is then the byte at that position of the concatenated blocks
\* (blocks of size zero are passed over); otherwise nothing is found and no
\* byte changes; a byte is written under the same rule, at that position
C30_ByteAt ==
    \A p \in ByteOffsets :
        /\ \A v \in ByteValues :
              ByteTested(p, v) =>
                  /\ last.arg.taken <=>
                        /\ ByteValid(pre.buffers[1], pre.heap, p)
                        /\ Flat(pre.buffers[1], pre.heap)
                              [LinearOffset(pre.buffers[1], pre.heap,
                                            Offset(p[1], p[2])) + 1] = v
                  /\ StoresKept
        /\ ByteAdjusted(p) =>
              /\ buffers = pre.buffers /\ samples = pre.samples /\ SizesKept
              /\ IF ByteValid(pre.buffers[1], pre.heap, p)
                 THEN /\ Flat(buffers[1], heap) = ByteAdded(pre.buffers[1], pre.heap, p)
                      /\ \A a \in DOMAIN heap \ Range(buffers[1]) : heap[a] = pre.heap[a]
                 ELSE heap = pre.heap

\* the byte 12 of the third block has been read at block 0, offset 2,
\* across the empty second block
C30_Witness ==
    /\ ByteTested(<<0, 2>>, 12)
    /\ last.arg.taken
    /\ Len(pre.heap[pre.buffers[1][1]]) = 2
    /\ Len(pre.heap[pre.buffers[1][2]]) = 0

----------------------------------------------------------------------------
(* Commands that name a buffer that does not exist (C24)                   *)

CallOps == {"CALL", "COND_CALL", "OFFSET_CALL", "OFFSET_COND_CALL"}

\* the commands that read the buffer they are addressed to
TargetReadOps ==
    CallOps \cup JumpOps
    \cup {"ADJUST", "CONSOLIDATE", "SPLIT", "SPLIT_INTO", "SPLIT_FROM", "SPLIT_BY",
          "SPLIT_BY_INTO", "SPLIT_BY_FROM", "SPREAD_INTO", "SPREAD_FROM",
          "REVERSE_BLOCKS", "REVERSE"}

CopyOps == {"COPY", "COPY_REF", "COPY_AND_CONSOLIDATE"}

\* the latest command was addressed to a buffer that did not exist
MissingTarget ==
    /\ last.op \in TargetReadOps
    /\ last.id # ReservedId
    /\ last.id \notin DOMAIN pre.buffers

\* the latest command named an operand or check buffer that did not exist
MissingOperand ==
    /\ last.op \in CallOps \cup JumpOps \cup {"ADJUST"}
    /\ last.arg.bytes \in CatMissingOperand
    /\ DOMAIN pre.buffers \cap {20, 21} = {}

\* the latest command was a copy with a list, one of whose sources did not
\* exist
MissingSource ==
    /\ last.op \in CopyOps /\ last.ret = 0 /\ last.id # ReservedId
    /\ \E i \in DOMAIN last.arg.ids : last.arg.ids[i] \notin DOMAIN pre.buffers

\* no interpreter was started, ended or given another buffer to read
StreamsKept ==
    /\ Len(stack) = Len(pre.stack)
    /\ \A i \in DOMAIN stack :
          stack[i].blocks = pre.stack[i].blocks /\ stack[i].id = pre.stack[i].id

\* the ids the copy leaves out of its source list
CopySkips == IF last.op = "COPY" THEN {} ELSE {last.id}

C24_NoOp ==
    /\ MissingTarget /\ last.op = "SPLIT_BY_INTO" /\ last.ret = 0
    /\ SameBuffer(1) /\ SameBuffer(2)

----------------------------------------------------------------------------
(* Allocation failure (C25)                                                *)

\* the latest command was cut short by an allocation that failed
AllocFailed == last.op = "ALLOC_FAIL"

\* C25: when a block allocation fails during COPY, COPY_AND_CONSOLIDATE,
\* CONSOLIDATE, SPLIT, SPLIT_INTO, SPLIT_FROM or a SPLIT_BY command, every
\* buffer, the targets included, has the key, the block list and the bytes
\* it had before the command
C25_AbortInstallsNothing == AllocFailed => BuffersUnchanged

\* C25 for the commands that allocate before they touch a buffer
C25_AbortOfCopy ==
    AllocFailed /\ last.arg.op \in {"COPY", "CONSOLIDATE"} => BuffersUnchanged

\* a COPY_AND_CONSOLIDATE whose allocation failed has emptied its target
C25_TargetEmptied ==
    /\ AllocFailed
    /\ last.arg.op = "COPY_AND_CONSOLIDATE"
    /\ last.id \in DOMAIN pre.buffers
    /\ pre.buffers[last.id] # <<>>
    /\ buffers[last.id] = <<>>

\* a SPLIT_BY_INTO whose allocation failed at its second chunk has
\* installed the first chunk in its first target and emptied the second
C25_PartlyInstalled ==
    /\ AllocFailed
    /\ last.arg.op = "SPLIT_BY_INTO"
    /\ last.arg.failAt = 4
    /\ buffers[2] # <<>>
    /\ ~SameBuffer(2)
    /\ buffers[3] = <<>>

----------------------------------------------------------------------------
(* The audio commands as the host sends them.                              *)

\* VDU 23, 0, &85, channel, command, <payload>
AudioCmd(channel, command, payload) ==
    <<VDU_SYS, VDU_SYS_VDP, VDP_AUDIO, channel, command>> \o payload

Enable(channel) == AudioCmd(channel, AUDIO_CMD_ENABLE, <<>>)

Play(channel) == AudioCmd(channel, AUDIO_CMD_PLAY, <<64>> \o W16(440) \o W16(100))

Reset(channel) == AudioCmd(channel, AUDIO_CMD_RESET, <<>>)

\* a channel number no channel has
NoChannel == 200

\* the channel byte that stands for sample 64256
FirstSample == 255

\* every channel command, whole and cut short
CatChannel ==
    {<<VDU_SYS, VDU_SYS_VDP, VDP_AUDIO, 0>>,
     Enable(0), Enable(0) \o Play(0), Reset(0), Reset(NoChannel),
     AudioCmd(0, AUDIO_CMD_DISABLE, <<>>),
     Play(0), AudioCmd(0, AUDIO_CMD_PLAY, <<64, 1>>),
     AudioCmd(0, AUDIO_CMD_STATUS, <<>>),
     AudioCmd(0, AUDIO_CMD_VOLUME, <<64>>), AudioCmd(0, AUDIO_CMD_VOLUME, <<>>),
     AudioCmd(0, AUDIO_CMD_FREQUENCY, W16(440)),
     AudioCmd(0, AUDIO_CMD_WAVEFORM, <<1>>),
     AudioCmd(0, AUDIO_CMD_WAVEFORM, <<AUDIO_WAVE_SAMPLE>> \o W16(3)),
     AudioCmd(0, AUDIO_CMD_WAVEFORM, <<AUDIO_WAVE_SAMPLE, 3>>),
     AudioCmd(0, AUDIO_CMD_SEEK, W24(1)),
     AudioCmd(0, AUDIO_CMD_DURATION, W24(1)),
     AudioCmd(0, AUDIO_CMD_SAMPLERATE, W16(8000)),
     AudioCmd(0, AUDIO_CMD_SET_PARAM, <<1, 2>>),
     AudioCmd(0, AUDIO_CMD_SET_PARAM, <<AUDIO_PARAM_16BIT + 1>> \o W16(300)),
     AudioCmd(0, AUDIO_CMD_SET_PARAM, <<AUDIO_PARAM_16BIT + 1, 2>>),
     AudioCmd(0, AUDIO_CMD_SET_PARAM + 1, <<>>)}

\* the envelope commands, whole and cut short
CatEnvelope ==
    {AudioCmd(0, AUDIO_CMD_ENV_VOLUME, <<>>),
     AudioCmd(0, AUDIO_CMD_ENV_VOLUME, <<AUDIO_ENVELOPE_NONE>>),
     AudioCmd(0, AUDIO_CMD_ENV_VOLUME,
              <<AUDIO_ENVELOPE_ADSR>> \o W16(10) \o W16(20) \o <<100>> \o W16(30)),
     AudioCmd(0, AUDIO_CMD_ENV_VOLUME, <<AUDIO_ENVELOPE_ADSR>> \o W16(10)),
     AudioCmd(0, AUDIO_CMD_ENV_VOLUME,
              <<AUDIO_ENVELOPE_MULTIPHASE_ADSR, 1, 100>> \o W16(10) \o <<0, 0>>),
     AudioCmd(0, AUDIO_CMD_ENV_VOLUME, <<AUDIO_ENVELOPE_MULTIPHASE_ADSR, 1, 100>>),
     AudioCmd(0, AUDIO_CMD_ENV_VOLUME, <<9>>),
     AudioCmd(0, AUDIO_CMD_ENV_FREQUENCY, <<AUDIO_ENVELOPE_NONE>>),
     AudioCmd(0, AUDIO_CMD_ENV_FREQUENCY,
              <<AUDIO_FREQUENCY_ENVELOPE_STEPPED, 1, 0>> \o W16(5) \o W16(1) \o W16(2)),
     AudioCmd(0, AUDIO_CMD_ENV_FREQUENCY,
              <<AUDIO_FREQUENCY_ENVELOPE_STEPPED, 1, 0>> \o W16(5))}

\* SAMPLE FROM_BUFFER with a sample rate
SampleFromBufferRate(channel, bufferId, format, sampleRate) ==
    SampleFromBuffer(channel, bufferId, format + AUDIO_FORMAT_WITH_RATE)
        \o W16(sampleRate)

\* buffer 3 of one block and a sample made of it, with metadata set
SampleSetup ==
    Write(3, <<1, 2>>) \o SampleFromBuffer(FirstSample, 3, 1)
        \o SampleHdr(FirstSample, AUDIO_SAMPLE_BUFFER_SET_FREQUENCY) \o W16(3) \o W16(440)
        \o SampleHdr(FirstSample, AUDIO_SAMPLE_BUFFER_SET_REPEAT_START) \o W16(3) \o W24(1)

\* the sample actions, whole and cut short, and the buffered commands that
\* make and empty the buffers they use
CatSample ==
    {SampleSetup,
     <<VDU_SYS, VDU_SYS_VDP, VDP_AUDIO, FirstSample, AUDIO_CMD_SAMPLE>>,
     CopyRef(3, <<9>>), Clear(3),
     SampleFromBuffer(FirstSample, 3, 0),
     SampleFromBufferRate(FirstSample, 3, AUDIO_FORMAT_TUNEABLE, 8000),
     SampleFromBuffer(FirstSample, 3, AUDIO_FORMAT_WITH_RATE),
     SampleFromBuffer(FirstSample, 4, 0),
     SampleLoad(FirstSample, <<7>>),
     SampleHdr(FirstSample, AUDIO_SAMPLE_LOAD) \o W24(2) \o <<7>>,
     SampleHdr(FirstSample, AUDIO_SAMPLE_LOAD) \o <<1>>,
     SampleClear(FirstSample),
     SampleHdr(FirstSample, AUDIO_SAMPLE_SET_FREQUENCY) \o W16(440),
     SampleHdr(FirstSample, AUDIO_SAMPLE_SET_FREQUENCY) \o <<1>>,
     SampleHdr(FirstSample, AUDIO_SAMPLE_SET_REPEAT_START) \o W24(1),
     SampleHdr(FirstSample, AUDIO_SAMPLE_SET_REPEAT_LENGTH) \o W24(RepeatLengthAll),
     SampleHdr(FirstSample, AUDIO_SAMPLE_BUFFER_SET_REPEAT_LENGTH) \o W16(3) \o W24(2),
     SampleHdr(FirstSample, AUDIO_SAMPLE_BUFFER_SET_FREQUENCY) \o W16(4) \o W16(440),
     SampleHdr(FirstSample, AUDIO_SAMPLE_DEBUG_INFO) \o W16(3),
     SampleHdr(FirstSample, AUDIO_SAMPLE_DEBUG_INFO) \o W16(4),
     SampleHdr(FirstSample, AUDIO_SAMPLE_DEBUG_INFO) \o <<4>>,
     SampleHdr(FirstSample, AUDIO_SAMPLE_BUFFER_SET_REPEAT_LENGTH + 1)}

CatAudio == CatChannel \cup CatEnvelope \cup CatSample

FeedAudio == Feed(CatAudio, MaxCmds)

\* the audio commands, the channels' tasks, and the buffered commands that
\* make the buffers of the samples
NextAudio ==
    \/ FeedAudio
    \/ AudioTask
    \/ BufferedWrite
    \/ BufferedClear
    \/ BufferedCopyRef
    \/ AudioShort
    \/ AudioPlay
    \/ AudioStatus
    \/ AudioVolume
    \/ AudioFrequency
    \/ AudioWaveform
    \/ AudioEnvVolume
    \/ AudioEnvFrequency
    \/ AudioEnable
    \/ AudioDisable
    \/ AudioReset
    \/ AudioSeek
    \/ AudioDuration
    \/ AudioSampleRate
    \/ AudioSetParam
    \/ AudioUnknown
    \/ AudioSampleShort
    \/ AudioSampleLoad
    \/ AudioSampleClear
    \/ AudioSampleFromBuffer
    \/ AudioSampleSetFrequency
    \/ AudioSampleBufferSetFrequency
    \/ AudioSampleSetRepeatStart
    \/ AudioSampleBufferSetRepeatStart
    \/ AudioSampleSetRepeatLength
    \/ AudioSampleBufferSetRepeatLength
    \/ AudioSampleDebugInfo
    \/ AudioSampleUnknown

SpecAudio == Init /\ [][NextAudio]_vars

----------------------------------------------------------------------------
(* C21: the status packet of an audio command.                             *)

\* the history names of the audio commands whose channel and command bytes
\* were read
AudioOps ==
    {"PLAY", "STATUS", "VOLUME", "FREQUENCY", "WAVEFORM", "ENV_VOLUME",
     "ENV_FREQUENCY", "ENABLE", "DISABLE", "RESET", "SEEK", "DURATION",
     "SAMPLERATE", "SET_PARAM", "AUDIO_UNKNOWN", "SAMPLE_SHORT", "SAMPLE_LOAD",
     "SAMPLE_CLEAR", "SAMPLE_FROM_BUFFER", "SAMPLE_SET_FREQUENCY",
     "SAMPLE_SET_REPEAT_START", "SAMPLE_SET_REPEAT_LENGTH", "SAMPLE_DEBUG_INFO",
     "SAMPLE_UNKNOWN"}

\* the bytes the latest command had before it
RemBefore == RemOf(pre.stack, pre.input, pre.heap)

\* the latest step is an audio command that has sent exactly one packet,
\* for the channel byte it read
OnePacket ==
    /\ Len(last.packets) = 1
    /\ last.packets[1].channel = RemBefore[4]

\* C21: every audio command whose channel and command bytes were read has
\* sent exactly one status packet [channel, status], whatever its command
\* code and sample action; when its payload could not be read the status
\* is 0
C21_OnePacket ==
    last.op \in AudioOps =>
        /\ OnePacket
        /\ last.short => last.packets[1].status = 0

\* C21: a VOLUME command whose volume byte is missing has returned without
\* a packet
C21_ShortSilent ==
    /\ last.op = "VOLUME"
    /\ RemBefore = AudioCmd(0, AUDIO_CMD_VOLUME, <<>>)
    /\ last.short
    /\ last.packets = <<>>

\* C21: a command code the switch does not know has ended without a packet
C21_UnknownSilent ==
    /\ last.op = "AUDIO_UNKNOWN"
    /\ RemBefore[5] = AUDIO_CMD_SET_PARAM + 1
    /\ last.packets = <<>>

\* C21: the sample action DEBUG_INFO, read whole, has ended without a packet
C21_DebugInfoSilent ==
    /\ last.op = "SAMPLE_DEBUG_INFO"
    /\ ~last.short
    /\ last.packets = <<>>

\* C21: a command that was read whole and is neither an unknown command
\* code nor DEBUG_INFO nor ended by a trap has sent exactly one packet; so
\* has an envelope command of an enabled channel whose payload is cut short,
\* with status 0
C21_WholeAnswered ==
    /\ (last.op \in AudioOps \ {"AUDIO_UNKNOWN", "SAMPLE_DEBUG_INFO"}
            /\ ~last.short /\ last.ret # NoValue) => OnePacket
    /\ (last.op \in {"ENV_VOLUME", "ENV_FREQUENCY"} /\ last.short
            /\ Len(RemBefore) >= 6)
           => OnePacket /\ last.packets[1].status = 0

\* C21: an ADSR envelope cut short has been answered with status 0
C21_EnvelopeShortAnswered ==
    /\ last.op = "ENV_VOLUME"
    /\ last.short
    /\ last.packets = <<AudioPacket(0, 0)>>

----------------------------------------------------------------------------
(* C26: the RESET command of a channel.                                    *)

\* the latest step is a RESET for the channel
ResetOf(channel) == last.op = "RESET" /\ last.id = channel

\* C26 as amended: a RESET of a channel that is enabled (Idle, Playing or
\* Releasing) leaves it enabled and Idle and answers 1; a RESET of a channel
\* that is Disabled, or of a channel number no channel has, changes no
\* channel and answers 0
C26_ResetOfEnabled ==
    \A c \in 0..255 :
        ResetOf(c) =>
            IF channelEnabled(pre.audioChannels, c)
            THEN /\ audioChannels = [pre.audioChannels EXCEPT ![c] = "Idle"]
                 /\ last.packets = <<AudioPacket(c, 1)>>
            ELSE /\ audioChannels = pre.audioChannels
                 /\ last.packets = <<AudioPacket(c, 0)>>

\* C26 as stated: a RESET of a channel in any state leaves it enabled and
\* Idle
C26_Original ==
    \A c \in Channels : ResetOf(c) => audioChannels[c] = "Idle"

\* C26: a channel that was Playing has been reset and is Idle
C26_Witness ==
    /\ ResetOf(0)
    /\ pre.audioChannels[0] = "Playing"
    /\ audioChannels[0] = "Idle"

\* C26: a channel that was Releasing has been reset and is Idle
C26_WitnessReleasing ==
    /\ ResetOf(0)
    /\ pre.audioChannels[0] = "Releasing"
    /\ audioChannels[0] = "Idle"

\* C26: a channel that was Disabled has been reset and is still Disabled
C26_StaysDisabled ==
    /\ ResetOf(0)
    /\ pre.audioChannels[0] = "Disabled"
    /\ audioChannels[0] = "Disabled"
    /\ last.packets = <<AudioPacket(0, 0)>>

----------------------------------------------------------------------------
(* C22: the block list of a sample.                                        *)

\* no command is running and none is waiting
Quiescent == stack = <<>> /\ input = <<>>

\* the ids whose entry in samples holds a sample
SampleIds == {id \in DOMAIN samples : samples[id] # NullSample}

\* C22: at every quiescent point each existing sample has a block list of
\* at least one block
C22_SampleHasBlocks ==
    Quiescent => \A id \in SampleIds : Len(samples[id].blocks) >= 1

\* C22: SAMPLE FROM_BUFFER has answered 1 for a buffer that COPY_REF has
\* left without a block, and the sample it made has no block
C22_EmptySample ==
    /\ Quiescent
    /\ last.op = "SAMPLE_FROM_BUFFER"
    /\ last.ret = 1
    /\ last.id = 3
    /\ pre.buffers[3] = <<>>
    /\ 3 \in SampleIds
    /\ samples[3].blocks = <<>>

\* C22: a sample that is made from a buffer with blocks, or loaded, has a
\* block list of at least one block
C22_MadeOfBlocks ==
    (/\ last.op \in {"SAMPLE_FROM_BUFFER", "SAMPLE_LOAD"}
     /\ last.ret = 1
     /\ (last.op = "SAMPLE_FROM_BUFFER" => pre.buffers[last.id] # <<>>))
        => Len(samples[last.id].blocks) >= 1

\* C22: SAMPLE DEBUG_INFO for an id without a sample has left an entry that
\* holds no sample
C22_NullEntry ==
    /\ Quiescent
    /\ last.op = "SAMPLE_DEBUG_INFO"
    /\ 4 \in DOMAIN samples
    /\ 4 \notin DOMAIN pre.samples
    /\ samples[4] = NullSample

----------------------------------------------------------------------------
(* C23: a sample made for an id that has one.                              *)

\* the latest step has made a sample: FROM_BUFFER or LOAD has answered 1
SampleMade == last.op \in {"SAMPLE_FROM_BUFFER", "SAMPLE_LOAD"} /\ last.ret = 1

\* format byte and sample rate the latest step has made its sample with
MadeFormat == IF last.op = "SAMPLE_LOAD" THEN 0 ELSE last.arg.format

MadeRate ==
    IF last.op = "SAMPLE_FROM_BUFFER" /\ Bit(MadeFormat, AUDIO_FORMAT_WITH_RATE)
    THEN last.arg.sampleRate ELSE AUDIO_DEFAULT_SAMPLE_RATE

\* the metadata of a sample
Metadata(sample) ==
    <<sample.format, sample.sampleRate, sample.baseFrequency, sample.repeatStart,
      sample.repeatLength>>

\* the metadata of a new sample of that format and rate: no repeat start,
\* repeat to the end, base frequency 0 or, for a tuneable sample, the default
NewMetadata(format, sampleRate) ==
    <<format % (AUDIO_FORMAT_DATA_MASK + 1), sampleRate,
      IF Bit(format, AUDIO_FORMAT_TUNEABLE) THEN AUDIO_DEFAULT_FREQUENCY ELSE 0,
      0, NoValue>>

\* C23: after a sample has been made for an id (FROM_BUFFER or LOAD), the
\* sample stored at the id is the new one, over the blocks of the buffer,
\* and carries the new format and sample rate and the default repeat and
\* base frequency, whatever a sample stored at the id before had been set to
C23_CreateReplaces ==
    SampleMade =>
        /\ last.id \in SampleIds
        /\ samples[last.id].blocks = buffers[last.id]
        /\ Metadata(samples[last.id]) = NewMetadata(MadeFormat, MadeRate)

\* C23: FROM_BUFFER has made a sample for an id whose sample had a base
\* frequency and a repeat start set, and the new sample has neither
C23_Witness ==
    /\ SampleMade
    /\ last.op = "SAMPLE_FROM_BUFFER"
    /\ last.id \in DOMAIN pre.samples
    /\ pre.samples[last.id].baseFrequency = 440
    /\ pre.samples[last.id].repeatStart = 1
    /\ samples[last.id].baseFrequency = 0
    /\ samples[last.id].repeatStart = 0

\* C23: LOAD has made a sample for an id whose sample had a base frequency
\* set, and the new sample has none
C23_WitnessLoad ==
    /\ SampleMade
    /\ last.op = "SAMPLE_LOAD"
    /\ last.id \in DOMAIN pre.samples
    /\ pre.samples[last.id].baseFrequency = 440
    /\ samples[last.id].baseFrequency = 0

----------------------------------------------------------------------------
(* C31, C32: ADJUST of one target byte with several operands.              *)

\* buffer 1 of one block
AccSetup == Write(1, <<0, 1, 200, 7>>)

\* the operand bytes the host sends
AccOperands == <<100, 200, 3>>

\* every operation on one target byte with one operand per iteration:
\* VDU 23, 0, &A0, 1; 5, op + MULTI_OPERAND, offset; count; <operands>
Accumulate(op, p, n) ==
    Adjust(1, op + ADJUST_MULTI_OPERAND,
           W16(p) \o W16(n) \o (IF op > ADJUST_NEG THEN Take(AccOperands, n) ELSE <<>>))

\* add-with-carry over the last two bytes of the buffer, one operand each
AdcAtEnd == Adjust(1, AdcEach, W16(2) \o W16(2) \o <<100, 250>>)

CatAccumulate ==
    {AccSetup, AdcAtEnd}
        \cup {Accumulate(op, p, n) : op \in ADJUST_NOT..ADJUST_XOR, p \in 0..3, n \in 1..3}

FeedAccumulate == Feed(CatAccumulate, MaxCmds)

\* ADJUST on the bytes of one buffer
NextAccumulate ==
    \/ FeedAccumulate
    \/ BufferedWrite
    \/ BufferedAdjust

SpecAccumulate == Init /\ [][NextAccumulate]_vars

\* one operation on a byte v with operand o and carry c: [v, c]
ByteOp(op, v, o, c) ==
    CASE op = ADJUST_NOT -> [v |-> 255 - v, c |-> c]
      [] op = ADJUST_NEG -> [v |-> (256 - v) % 256, c |-> c]
      [] op = ADJUST_SET -> [v |-> o, c |-> c]
      [] op = ADJUST_ADD -> [v |-> (v + o) % 256, c |-> c]
      [] op = ADJUST_ADD_CARRY -> [v |-> (v + o + c) % 256, c |-> (v + o + c) \div 256]
      [] op = ADJUST_AND -> [v |-> BitOp("and", v, o, 8), c |-> c]
      [] op = ADJUST_OR -> [v |-> BitOp("or", v, o, 8), c |-> c]
      [] op = ADJUST_XOR -> [v |-> BitOp("xor", v, o, 8), c |-> c]

\* the operation applied n times in sequence, with the operands os when it
\* takes one
RECURSIVE ByteOps(_, _, _, _, _)
ByteOps(op, v, os, c, n) ==
    IF n = 0 THEN [v |-> v, c |-> c]
    ELSE ByteOps(op, ByteOp(op, v, IF os = <<>> THEN 0 ELSE Head(os), c).v,
                 IF os = <<>> THEN os ELSE Tail(os),
                 ByteOp(op, v, IF os = <<>> THEN 0 ELSE Head(os), c).c, n - 1)

\* the latest step was an ADJUST with MULTI_OPERAND and without MULTI_TARGET,
\* with count >= 1, of a byte that is in the target buffer, whose operands
\* came whole from the stream
AccApplies ==
    /\ last.op = "ADJUST"
    /\ AdcCommand.command # NoValue
    /\ ~AdcCommand.useMultiTarget
    /\ AdcCommand.useMultiOperand
    /\ ~AdcCommand.fromBuffer
    /\ AdcCount # NoValue /\ AdcCount >= 1
    /\ AdcArgs.offset.blockOffset # NoValue
    /\ resolveBufferId(last.id, last.cur) \in DOMAIN pre.buffers
    /\ AdcArgs.offset.blockIndex < Len(AdcBlocks)
    /\ AdcAt < TotalSize(AdcBlocks, pre.heap)
    /\ AdcCommand.hasOperand
           => Len(last.arg.bytes) >= AdcOperand.next + AdcCount - 1

\* the target byte before and after the command
AccBefore == Flat(AdcBlocks, pre.heap)[AdcAt + 1]

AccAfter == Flat(buffers[resolveBufferId(last.id, last.cur)], heap)[AdcAt + 1]

\* the operands of the command: none for NOT and NEG
AccOperandBytes ==
    IF AdcCommand.hasOperand THEN AdcOperandBytes(AdcCount) ELSE <<>>

\* what applying the operation count times to the byte gives
AccExpected == ByteOps(AdcCommand.op, AccBefore, AccOperandBytes, 0, AdcCount).v

\* C31: after an ADJUST with MULTI_OPERAND and without MULTI_TARGET, for
\* every operation and every count >= 1, the target byte is the result of
\* applying the operation count times in sequence, with the successive
\* operand bytes, to the original byte, reduced mod 256
C31_Accumulates == AccApplies => AccAfter = AccExpected

\* the loop comes to the value -1, which it takes for a failed read: NOT of
\* the byte 0 and NEG of the byte 1, when another iteration follows
AccMinusOne ==
    /\ AdcCount >= 2
    /\ \/ AdcCommand.op = ADJUST_NOT /\ AccBefore = 0
       \/ AdcCommand.op = ADJUST_NEG /\ AccBefore = 1

\* C31: NOT applied three times to the byte 0 has left it 0, not 255
C31_NotAborts ==
    /\ AccApplies
    /\ AdcCommand.op = ADJUST_NOT
    /\ AdcCount = 3
    /\ AccBefore = 0
    /\ AccExpected = 255
    /\ AccAfter = 0
    /\ heap = pre.heap

\* C31: NEG applied three times to the byte 1 has left it 1, not 255
C31_NegAborts ==
    /\ AccApplies
    /\ AdcCommand.op = ADJUST_NEG
    /\ AdcCount = 3
    /\ AccBefore = 1
    /\ AccAfter = 1

\* C31: the target byte is as stated whenever the loop does not come to -1,
\* and is unchanged when it does
C31_AccumulatesOtherwise ==
    AccApplies =>
        IF AccMinusOne THEN heap = pre.heap ELSE AccAfter = AccExpected

\* C31: add-with-carry of 200 with the operands 100, 200, 3 has accumulated
\* in the one byte
C31_AdcAccumulated ==
    /\ AccApplies
    /\ AdcCommand.op = ADJUST_ADD_CARRY
    /\ AdcCount = 3
    /\ AccBefore = 200
    /\ AccAfter = AccExpected

----------------------------------------------------------------------------
(* C32: the carry of an add-with-carry past the end of the buffer.         *)

\* the number of target bytes of the ADJUST that the latest step executed
AdcTargets == IF AdcCommand.useMultiTarget THEN AdcCount ELSE 1

\* the latest step was an add-with-carry, with operands from the stream,
\* whose target bytes are the last bytes of the target buffer: the byte
\* after them, where the final carry belongs, is past its end
CarryPastEnd ==
    /\ last.op = "ADJUST"
    /\ AdcCommand.command # NoValue
    /\ AdcCommand.op = ADJUST_ADD_CARRY
    /\ AdcCommand.useMultiOperand
    /\ ~AdcCommand.fromBuffer
    /\ AdcCount # NoValue /\ AdcCount >= 1
    /\ AdcArgs.offset.blockOffset # NoValue
    /\ resolveBufferId(last.id, last.cur) \in DOMAIN pre.buffers
    /\ AdcArgs.offset.blockIndex < Len(AdcBlocks)
    /\ AdcAt + AdcTargets = TotalSize(AdcBlocks, pre.heap)
    /\ Len(last.arg.bytes) >= AdcOperand.next + AdcCount - 1

\* the bytes of the target buffer before and after the command
TargetBefore == Flat(AdcBlocks, pre.heap)

TargetNow == Flat(buffers[resolveBufferId(last.id, last.cur)], heap)

\* the target bytes as the command leaves them when the carry is dropped
UpdatedTargets ==
    IF AdcCommand.useMultiTarget
    THEN LittleEndian(SubSeq(TargetNow, AdcAt + 1, AdcAt + AdcCount))
             = (LittleEndian(SubSeq(TargetBefore, AdcAt + 1, AdcAt + AdcCount))
                + LittleEndian(AdcOperandBytes(AdcCount))) % Pow256(AdcCount)
    ELSE TargetNow[AdcAt + 1]
             = ByteOps(ADJUST_ADD_CARRY, TargetBefore[AdcAt + 1],
                       AdcOperandBytes(AdcCount), 0, AdcCount).v

\* C32: an ADJUST changes neither the block list of a buffer nor the size
\* of a block; when the byte after the last target of an add-with-carry is
\* past the end of the target buffer, the buffer has the bytes it had and no
\* more, except that the target bytes have their updated values
C32_CarryDiscarded ==
    last.op = "ADJUST" =>
        /\ buffers = pre.buffers
        /\ SizesKept
        /\ CarryPastEnd =>
               /\ UpdatedTargets
               /\ SubSeq(TargetNow, 1, AdcAt) = SubSeq(TargetBefore, 1, AdcAt)

\* C32: add-with-carry of 100, 250 to the last two bytes 200, 7 of a buffer
\* of four bytes has left 44, 2 there and the buffer four bytes long
C32_Witness ==
    /\ CarryPastEnd
    /\ AdcCommand.useMultiTarget
    /\ AdcCount = 2
    /\ SubSeq(TargetBefore, 3, 4) = <<200, 7>>
    /\ AdcOperandBytes(2) = <<100, 250>>
    /\ TargetNow = SubSeq(TargetBefore, 1, 2) \o <<44, 2>>

\* C32: add-with-carry of several operands to the last byte of the buffer
\* has updated that byte
C32_WitnessSingle ==
    /\ CarryPastEnd
    /\ ~AdcCommand.useMultiTarget
    /\ AdcCount = 3
    /\ TargetNow[AdcAt + 1] # TargetBefore[AdcAt + 1]
    /\ Len(TargetNow) = AdcAt + 1

----------------------------------------------------------------------------
(* C33: REVERSE of the bytes of every block.                               *)

\* the latest step was a REVERSE without REVERSE_BLOCK that went through:
\* value size and chunk size divide the size of every block
ReversedInPlace ==
    /\ Reversed
    /\ ~Bit(last.arg.options, REVERSE_BLOCK)
    /\ RevValueSize >= 1
    /\ \A k \in DOMAIN RevSizes : ~Misfit(k)
    /\ last.arg.outcome = "returns"

\* after is before with the order of its units of valueSize bytes reversed
\* within each chunk (within the whole when chunkSize is 0); bytes after the
\* last whole unit of a chunk stay
UnitsReversed(before, after, valueSize, chunkSize) ==
    LET chunk == IF chunkSize = 0 THEN Len(before) ELSE chunkSize
        units == chunk \div valueSize
    IN  /\ Len(after) = Len(before)
        /\ \A i \in 0..(Len(before) - 1) :
               LET c == i \div chunk
                   u == (i % chunk) \div valueSize
                   k == (i % chunk) % valueSize
               IN  after[i + 1] =
                       IF u >= units THEN before[i + 1]
                       ELSE before[c * chunk + (units - 1 - u) * valueSize + k + 1]

\* the bytes at block position p of the buffer before and after the REVERSE
RevBefore(p) == pre.heap[pre.buffers[last.id][p]]

RevAfter(p) == heap[buffers[last.id][p]]

\* C33: after a successful REVERSE of a buffer without REVERSE_BLOCK, for
\* every block position p of the buffer the bytes read at p are the bytes
\* previously at p with the order of the value-sized units reversed within
\* each chunk, for every buffer, also one that holds the same block at more
\* than one position
C33_ReverseUnits ==
    ReversedInPlace =>
        /\ buffers[last.id] = pre.buffers[last.id]
        /\ \A p \in DOMAIN pre.buffers[last.id] :
               UnitsReversed(RevBefore(p), RevAfter(p), RevValueSize, RevChunkSize)

\* the number of positions of the buffer that hold the block of position p
Occurrences(p) ==
    Cardinality({q \in DOMAIN pre.buffers[last.id] :
                     pre.buffers[last.id][q] = pre.buffers[last.id][p]})

\* C33: a buffer that holds each of its blocks twice (COPY_REF with a
\* repeated source) has been reversed, and its bytes are as they were,
\* although reversing them gives other bytes
C33_SharedTwice ==
    /\ ReversedInPlace
    /\ RevValueSize = 1 /\ RevChunkSize = 0
    /\ Len(pre.buffers[last.id]) = 4
    /\ \A p \in DOMAIN pre.buffers[last.id] : Occurrences(p) = 2
    /\ \A p \in DOMAIN pre.buffers[last.id] : RevAfter(p) = RevBefore(p)
    /\ ~UnitsReversed(RevBefore(1), RevAfter(1), 1, 0)

\* C33: the bytes at a position are reversed when the block of that
\* position is held an odd number of times, and are as they were when it is
\* held an even number of times
C33_ReverseByOccurrences ==
    ReversedInPlace =>
        /\ buffers[last.id] = pre.buffers[last.id]
        /\ \A p \in DOMAIN pre.buffers[last.id] :
               IF Occurrences(p) % 2 = 1
               THEN UnitsReversed(RevBefore(p), RevAfter(p), RevValueSize, RevChunkSize)
               ELSE RevAfter(p) = RevBefore(p)

\* C33: a buffer of two different blocks has been reversed, and the bytes of
\* each are in the opposite order
C33_DistinctReversed ==
    /\ ReversedInPlace
    /\ RevValueSize = 1 /\ RevChunkSize = 0
    /\ Len(pre.buffers[last.id]) = 2
    /\ Occurrences(1) = 1 /\ Occurrences(2) = 1
    /\ RevAfter(1) # RevBefore(1)
    /\ UnitsReversed(RevBefore(1), RevAfter(1), 1, 0)

----------------------------------------------------------------------------
(* SPLIT_INTO, SPREAD_INTO and COPY_AND_CONSOLIDATE over buffers and       *)
(* samples that share blocks.                                              *)

SplitIntoCmd(bufferId, length, ids) ==
    Hdr(bufferId, BUFFERED_SPLIT_INTO) \o W16(length) \o IdList(ids)

SpreadIntoCmd(bufferId, ids) == Hdr(bufferId, BUFFERED_SPREAD_INTO) \o IdList(ids)

CopyAndConsolidateCmd(bufferId, ids) ==
    Hdr(bufferId, BUFFERED_COPY_AND_CONSOLIDATE) \o IdList(ids)

\* buffer 1 of a three-byte and a two-byte block, buffer 2 of one block of
\* two bytes, buffer 4 of one block of two bytes
DistributeSetup ==
    Write(1, <<1, 2, 3>>) \o Write(1, <<4, 5>>) \o Write(2, <<7, 8>>)
        \o Write(4, <<9, 10>>)

\* SPLIT_INTO with lengths that divide the five bytes of buffer 1 and that
\* do not, into fewer and more targets than chunks, targets that exist and
\* that do not, the source among the targets, a target listed twice, a
\* source that does not exist
CatSplitInto ==
    {SplitIntoCmd(1, 2, <<2, 3>>), SplitIntoCmd(1, 2, <<1, 2>>),
     SplitIntoCmd(1, 3, <<2, 3, 4>>), SplitIntoCmd(1, 3, <<3, 2, 5>>),
     SplitIntoCmd(1, 1, <<3>>), SplitIntoCmd(2, 1, <<3, 3>>),
     SplitIntoCmd(1, 5, <<1, 4>>), SplitIntoCmd(9, 1, <<2>>)}

\* SPREAD_INTO of the blocks of buffer 1 (and of what SPLIT_INTO made of
\* buffer 3): the source outside and among the targets
CatSpreadInto ==
    {SpreadIntoCmd(1, <<2, 3>>), SpreadIntoCmd(1, <<3>>),
     SpreadIntoCmd(1, <<1, 2>>), SpreadIntoCmd(1, <<2, 1>>),
     SpreadIntoCmd(3, <<2, 4, 5>>), SpreadIntoCmd(9, <<2>>)}

\* COPY_AND_CONSOLIDATE into a target that does not exist, that has several
\* blocks, that has one block of another size and of the same size; the
\* target's block shared with buffer 3 (COPY_REF), with sample 2 (FROM_BUFFER)
CatConsolidate ==
    {CopyRef(3, <<2>>), CopyRef(3, <<4>>),
     SampleFromBuffer(FirstSample, 2, 0),
     CopyAndConsolidateCmd(2, <<4>>), CopyAndConsolidateCmd(3, <<4>>),
     CopyAndConsolidateCmd(3, <<2>>), CopyAndConsolidateCmd(2, <<1>>),
     CopyAndConsolidateCmd(5, <<1, 2>>), CopyAndConsolidateCmd(1, <<2, 4>>),
     CopyAndConsolidateCmd(4, <<4, 2>>)}

CatDistribute ==
    {DistributeSetup} \cup CatSplitInto \cup CatSpreadInto \cup CatConsolidate

FeedDistribute == Feed(CatDistribute, MaxCmds)

NextDistribute ==
    \/ FeedDistribute
    \/ BufferedWrite
    \/ BufferedCopyRef
    \/ BufferedSplitInto
    \/ BufferedSpreadInto
    \/ BufferedCopyAndConsolidate
    \/ AudioSampleFromBuffer

SpecDistribute == Init /\ [][NextDistribute]_vars

----------------------------------------------------------------------------
(* C34: SPLIT_INTO.                                                        *)

\* the length argument and the target list of the SPLIT_INTO just done
SplitLength == readWord_t(RemBefore, ArgAt)

SplitTargets == last.arg.ids

\* the latest step was a SPLIT_INTO of a buffer that exists, with a length
\* of at least one byte and at least one target
SplitDone ==
    /\ last.op = "SPLIT_INTO"
    /\ last.ret = 0
    /\ last.id \in DOMAIN pre.buffers
    /\ SplitLength >= 1

\* the bytes of the source, block after block, as they were
SplitSource == Flat(pre.buffers[last.id], pre.heap)

SplitCount == (Len(SplitSource) + SplitLength - 1) \div SplitLength

\* chunk j (from 0) of the source
SplitChunk(j) ==
    SubSeq(SplitSource, j * SplitLength + 1,
           Min((j + 1) * SplitLength, Len(SplitSource)))

\* the target of chunk j, and the chunks target t receives
SplitTarget(j) == SplitTargets[(j % Len(SplitTargets)) + 1]

SplitChunksOf(t) == {j \in 0..(SplitCount - 1) : SplitTarget(j) = t}

\* the position in its target at which chunk j is found
SplitRank(j) == Cardinality({i \in SplitChunksOf(SplitTarget(j)) : i <= j})

\* the blocks of the targets read in round-robin order
RoundRobin ==
    [k \in 1..SplitCount |-> buffers[SplitTarget(k - 1)][SplitRank(k - 1)]]

C34_WitnessSourceTarget ==
    /\ SplitDone
    /\ last.id \in Range(SplitTargets)
    /\ Len(pre.buffers[last.id]) = 2
    /\ SplitCount = 3
    /\ Bytes(buffers[last.id], heap) = <<SplitChunk(0), SplitChunk(2)>>

\* C34: a target that held bytes receives no chunk and is left empty, and a
\* target that was no buffer receives no chunk and is still none
C34_WitnessNoChunk ==
    /\ SplitDone
    /\ \E t \in Range(SplitTargets) :
           /\ SplitChunksOf(t) = {}
           /\ t \in DOMAIN pre.buffers /\ pre.buffers[t] # <<>>
           /\ buffers[t] = <<>>

C34_WitnessNoBuffer ==
    /\ SplitDone
    /\ \E t \in Range(SplitTargets) :
           SplitChunksOf(t) = {} /\ t \notin DOMAIN pre.buffers
               /\ t \notin DOMAIN buffers

----------------------------------------------------------------------------
(* C35: SPREAD_INTO.                                                       *)

SpreadTargets == last.arg.ids

\* the latest step was a SPREAD_INTO of a buffer that exists
SpreadDone ==
    /\ last.op = "SPREAD_INTO"
    /\ last.ret = 0
    /\ last.id \in DOMAIN pre.buffers

\* the blocks of the source as they were
SpreadBlocks == pre.buffers[last.id]

\* the target of block j (from 0), and the blocks target t is to receive
SpreadTarget(j) == SpreadTargets[(j % Len(SpreadTargets)) + 1]

SpreadBlocksOf(t) == {j \in 0..(Len(SpreadBlocks) - 1) : SpreadTarget(j) = t}

\* every block j of the source is the floor(j/n)-th block of target
\* t(j mod n), and the targets hold nothing else
SpreadOut ==
    /\ \A j \in 0..(Len(SpreadBlocks) - 1) :
           /\ SpreadTarget(j) \in DOMAIN buffers
           /\ Len(buffers[SpreadTarget(j)]) >= (j \div Len(SpreadTargets)) + 1
           /\ buffers[SpreadTarget(j)][(j \div Len(SpreadTargets)) + 1]
                  = SpreadBlocks[j + 1]
    /\ \A t \in Range(SpreadTargets) :
           Len(At(buffers, t)) = Cardinality(SpreadBlocksOf(t))

\* C35: after SPREAD_INTO(source, targets), for every block index j of the
\* source as it was, target t(j mod n) holds that same block as its
\* floor(j/n)-th block, the targets hold nothing else, and the block list of
\* the source is unchanged, for every target list, also one that contains
\* the source id
C35_SpreadInto ==
    SpreadDone =>
        /\ SpreadOut
        /\ last.id \in DOMAIN buffers
        /\ buffers[last.id] = SpreadBlocks

\* C35: a source of two blocks has been spread into a list that contains
\* it, and no target holds any block: the source is empty as well
C35_SourceEmptied ==
    /\ SpreadDone
    /\ last.id \in Range(SpreadTargets)
    /\ Len(SpreadBlocks) = 2
    /\ buffers[last.id] = <<>>
    /\ \A t \in Range(SpreadTargets) : At(buffers, t) = <<>>

\* C35: the claim holds for every target list that does not contain the
\* source, and no block is made and no byte of a block changes; with the
\* source in the list all the listed buffers that exist are left empty
C35_SpreadIntoOthers ==
    SpreadDone =>
        /\ \A a \in DOMAIN heap : a \in DOMAIN pre.heap /\ heap[a] = pre.heap[a]
        /\ IF last.id \in Range(SpreadTargets)
           THEN /\ \A t \in Range(SpreadTargets) : At(buffers, t) = <<>>
                /\ DOMAIN buffers = DOMAIN pre.buffers
           ELSE SpreadOut /\ buffers[last.id] = SpreadBlocks

\* C35: two blocks have been spread over two other buffers, one of which
\* held a block before; each holds one block of the source, by reference
C35_SpreadShared ==
    /\ SpreadDone
    /\ last.id \notin Range(SpreadTargets)
    /\ Len(SpreadBlocks) = 2 /\ Len(SpreadTargets) = 2
    /\ pre.buffers[SpreadTargets[1]] # <<>>
    /\ buffers[SpreadTargets[1]] = <<SpreadBlocks[1]>>
    /\ buffers[SpreadTargets[2]] = <<SpreadBlocks[2]>>
    /\ buffers[last.id] = SpreadBlocks

----------------------------------------------------------------------------
(* C36: what COPY_AND_CONSOLIDATE leaves alone.                            *)

\* the latest step was a COPY_AND_CONSOLIDATE into a buffer id
ConsolidatedInto ==
    /\ last.op = "COPY_AND_CONSOLIDATE"
    /\ last.ret = 0
    /\ last.id # ReservedId

\* every buffer but the target has its block list and its bytes as before
OtherBuffersKept == \A k \in DOMAIN pre.buffers \ {last.id} : SameBuffer(k)

\* C36: COPY_AND_CONSOLIDATE(target, sources) changes only the target: no
\* other buffer's block list or bytes and no sample's bytes differ from
\* before, in every state, also where the single block of the target has
\* the size of the new content and is shared with another buffer or a sample
C36_OnlyTarget ==
    ConsolidatedInto => OtherBuffersKept /\ SamplesUnchanged

\* the target held one block of the size of the new content before the
\* command: the block that is written in place
ReusedBlock ==
    /\ last.id \in DOMAIN pre.buffers
    /\ Len(pre.buffers[last.id]) = 1
    /\ buffers[last.id] = pre.buffers[last.id]

\* the buffers other than the target, and the samples, that held the block
\* of the target before the command
SharingBuffers ==
    {k \in DOMAIN pre.buffers \ {last.id} :
         pre.buffers[last.id][1] \in Range(pre.buffers[k])}

SharingSamples ==
    {k \in DOMAIN pre.samples :
         pre.samples[k] # NullSample
             /\ pre.buffers[last.id][1] \in Range(pre.samples[k].blocks)}

\* C36: the one block of the target, shared by reference with another
\* buffer, has been written in place: the other buffer reads other bytes
\* than before
C36_SharedOverwritten ==
    /\ ConsolidatedInto
    /\ ReusedBlock
    /\ \E k \in SharingBuffers :
           /\ buffers[k] = pre.buffers[k]
           /\ Bytes(buffers[k], heap) # Bytes(pre.buffers[k], pre.heap)
           /\ Bytes(buffers[k], heap) = Bytes(buffers[last.id], heap)

\* C36: the same with a sample made of the target by FROM_BUFFER
C36_SampleOverwritten ==
    /\ ConsolidatedInto
    /\ ReusedBlock
    /\ \E k \in SharingSamples :
           /\ samples[k] = pre.samples[k]
           /\ Bytes(samples[k].blocks, heap) # Bytes(pre.samples[k].blocks, pre.heap)

\* C36: only the target changes unless its block is written in place; then
\* the buffers and samples that differ are those that share the block
C36_OnlyTargetUnlessShared ==
    ConsolidatedInto =>
        /\ \A k \in DOMAIN pre.buffers \ {last.id} :
               SameBuffer(k) \/ (ReusedBlock /\ k \in SharingBuffers)
        /\ DOMAIN samples = DOMAIN pre.samples
        /\ \A k \in DOMAIN pre.samples :
               SameSample(k) \/ (ReusedBlock /\ k \in SharingSamples)

\* C36: a target of one block of another size, shared with another buffer,
\* gets a new block, and the other buffer is as it was
C36_NewBlock ==
    /\ ConsolidatedInto
    /\ last.id \in DOMAIN pre.buffers
    /\ Len(pre.buffers[last.id]) = 1
    /\ buffers[last.id] # pre.buffers[last.id]
    /\ SharingBuffers # {}
    /\ OtherBuffersKept

----------------------------------------------------------------------------
(* ADJUST, conditionals and envelopes sent to stores and channels that do  *)
(* and do not hold what the commands name.                                 *)

Disable(channel) == AudioCmd(channel, AUDIO_CMD_DISABLE, <<>>)

\* buffer 1 of three bytes, buffer 2 of one byte that is no command, and
\* channel 0 enabled
ConsumeSetup == Write(1, <<1, 2, 3>>) \o Write(2, <<0>>) \o Enable(0)

\* ADJUST of buffer 1 with no operand, with operands in the stream (one,
\* and one per step) and with an operand from buffer 1 and from buffer 3,
\* which is never there
CatConsumeAdjust ==
    {Adjust(1, ADJUST_NOT, W16(0)),
     Adjust(1, ADJUST_ADD, W16(0) \o <<5>>),
     Adjust(1, ADJUST_ADD + ADJUST_ADVANCED_OFFSETS, W24(1) \o <<5>>),
     Adjust(1, ADJUST_ADD + ADJUST_MULTI_OPERAND, W16(0) \o W16(2) \o <<5, 6>>),
     Adjust(1, ADJUST_XOR + ADJUST_MULTI_TARGET + ADJUST_MULTI_OPERAND,
            W16(1) \o W16(2) \o <<5, 6>>),
     Adjust(1, ADJUST_OR + ADJUST_MULTI_TARGET, W16(0) \o W16(2) \o <<4>>),
     Adjust(1, ADJUST_AND + ADJUST_MULTI_OPERAND, W16(7) \o W16(2) \o <<5, 6>>),
     Adjust(1, ADJUST_ADD + ADJUST_BUFFER_VALUE, W16(0) \o W16(1) \o W16(1)),
     Adjust(1, ADJUST_ADD + ADJUST_BUFFER_VALUE, W16(0) \o W16(3) \o W16(0))}

\* conditionals on buffer 1 with no operand, with an operand in the stream
\* (true and false when buffer 1 is there) and with an operand from a buffer
CatConsumeCond ==
    {Hdr(2, BUFFERED_COND_CALL) \o CondInline(COND_EXISTS, 1, 0, 0),
     Hdr(2, BUFFERED_COND_CALL) \o CondInline(COND_EQUAL, 1, 0, 1),
     Hdr(2, BUFFERED_COND_CALL) \o CondInline(COND_EQUAL, 1, 0, 9),
     Hdr(2, BUFFERED_COND_JUMP) \o CondInline(COND_LESS, 1, 1, 1),
     Hdr(2, BUFFERED_COND_JUMP) \o CondFrom(COND_EQUAL, 1, 0, 3, 0),
     Hdr(2, BUFFERED_OFFSET_COND_JUMP) \o W24(0) \o CondInline(COND_GREATER, 1, 0, 9),
     Hdr(2, BUFFERED_OFFSET_COND_CALL) \o W24(0) \o CondInline(COND_NOT_EQUAL, 1, 9, 1)}

\* envelopes of every type for channel 0
CatConsumeEnvelope ==
    {AudioCmd(0, AUDIO_CMD_ENV_VOLUME, <<AUDIO_ENVELOPE_NONE>>),
     AudioCmd(0, AUDIO_CMD_ENV_VOLUME,
              <<AUDIO_ENVELOPE_ADSR>> \o W16(1) \o W16(2) \o <<3>> \o W16(4)),
     AudioCmd(0, AUDIO_CMD_ENV_VOLUME,
              <<AUDIO_ENVELOPE_MULTIPHASE_ADSR, 2, 9>> \o W16(1) \o <<8>> \o W16(2)
                  \o <<0, 1, 7>> \o W16(3)),
     AudioCmd(0, AUDIO_CMD_ENV_FREQUENCY, <<AUDIO_ENVELOPE_NONE>>),
     AudioCmd(0, AUDIO_CMD_ENV_FREQUENCY,
              <<AUDIO_FREQUENCY_ENVELOPE_STEPPED, 1, 0>> \o W16(5) \o W16(1) \o W16(2))}

CatConsume ==
    {ConsumeSetup, Clear(1), Disable(0)}
        \cup CatConsumeAdjust \cup CatConsumeCond \cup CatConsumeEnvelope

FeedConsume == Feed(CatConsume, MaxCmds)

NextConsume ==
    \/ FeedConsume
    \/ Return
    \/ vdu_other
    \/ BufferedWrite
    \/ BufferedClear
    \/ BufferedAdjust
    \/ BufferedCondCall
    \/ BufferedCondJump
    \/ BufferedOffsetCondCall
    \/ BufferedOffsetCondJump
    \/ AudioEnable
    \/ AudioDisable
    \/ AudioEnvVolume
    \/ AudioEnvFrequency

SpecConsume == Init /\ [][NextConsume]_vars

----------------------------------------------------------------------------
(* C37: the bytes a command consumes.                                      *)

\* the i-th byte of the command (0 past its end)
CmdByte(i) == IF i <= Len(RemBefore) THEN RemBefore[i] ELSE 0

\* the bytes of an offset that starts at the i-th byte
OffsetBytes(i, isAdvanced) ==
    IF ~isAdvanced THEN 2 ELSE IF CmdByte(i + 2) >= 128 THEN 5 ELSE 3

\* the bytes of a count (16 bits, 24 bits with advanced offsets), its value
CountBytes(isAdvanced) == IF isAdvanced THEN 3 ELSE 2

CountAt(i, isAdvanced) ==
    CmdByte(i) + 256 * CmdByte(i + 1)
        + (IF isAdvanced THEN 65536 * CmdByte(i + 2) ELSE 0)

\* the length of an ADJUST command as its own bytes give it: header,
\* operation, offset, count if MULTI_, then the operand buffer and offset, or
\* one operand byte, or count operand bytes with MULTI_OPERAND
AdjustLength ==
    LET command == CmdByte(ArgAt)
        adv == Bit(command, ADJUST_ADVANCED_OFFSETS)
        multi == Bit(command, ADJUST_MULTI_TARGET) \/ Bit(command, ADJUST_MULTI_OPERAND)
        hasOperand == (command % (ADJUST_OP_MASK + 1)) > ADJUST_NEG
        countAt == ArgAt + 1 + OffsetBytes(ArgAt + 1, adv)
        operandAt == countAt + (IF multi THEN CountBytes(adv) ELSE 0)
    IN  (operandAt - 1)
            + (IF ~hasOperand THEN 0
               ELSE IF Bit(command, ADJUST_BUFFER_VALUE)
               THEN 2 + OffsetBytes(operandAt + 2, adv)
               ELSE IF Bit(command, ADJUST_MULTI_OPERAND) THEN CountAt(countAt, adv)
               ELSE 1)

\* the length of a conditional whose condition starts at the i-th byte:
\* operation, check buffer, offset, then the operand buffer and offset or
\* one operand byte
CondLength(i) ==
    LET command == CmdByte(i)
        adv == Bit(command, COND_ADVANCED_OFFSETS)
        hasOperand == (command % (COND_OP_MASK + 1)) > COND_NOT_EXISTS
        operandAt == i + 3 + OffsetBytes(i + 3, adv)
    IN  (operandAt - 1)
            + (IF ~hasOperand THEN 0
               ELSE IF Bit(command, COND_BUFFER_VALUE)
               THEN 2 + OffsetBytes(operandAt + 2, adv)
               ELSE 1)

\* the index after a list of volume sub-phases that starts at the i-th byte
PhasesEnd(i) == i + 1 + 3 * CmdByte(i)

\* the length of an ENV_VOLUME and of an ENV_FREQUENCY command
EnvVolumeLength ==
    IF CmdByte(6) = AUDIO_ENVELOPE_ADSR THEN 13
    ELSE IF CmdByte(6) = AUDIO_ENVELOPE_MULTIPHASE_ADSR
    THEN PhasesEnd(PhasesEnd(PhasesEnd(7))) - 1
    ELSE 6

EnvFrequencyLength ==
    IF CmdByte(6) = AUDIO_FREQUENCY_ENVELOPE_STEPPED THEN 10 + 4 * CmdByte(7)
    ELSE 6

ConsumeOps ==
    {"ADJUST", "ENV_VOLUME", "ENV_FREQUENCY"} \cup CondOps

\* the length of the command of the latest step, from its bytes
CommandLength ==
    IF last.op = "ADJUST" THEN AdjustLength
    ELSE IF last.op \in {"COND_CALL", "COND_JUMP"} THEN CondLength(ArgAt)
    ELSE IF last.op \in {"OFFSET_COND_CALL", "OFFSET_COND_JUMP"}
    THEN CondLength(ArgAt + OffsetBytes(ArgAt, TRUE))
    ELSE IF last.op = "ENV_VOLUME" THEN EnvVolumeLength
    ELSE EnvFrequencyLength

\* the bytes the latest step has read from the stream
Consumed ==
    IF last.op = "ADJUST" THEN last.arg.n
    ELSE IF last.op \in CondOps THEN Len(last.arg.bytes)
    ELSE Len(RemBefore) - Len(Rem)

\* the latest step was one of the commands, and the stream held all of it
ConsumeDone == last.op \in ConsumeOps /\ Len(RemBefore) >= CommandLength

\* C37: the number of bytes an ADJUST, a conditional and an ENV_VOLUME or
\* ENV_FREQUENCY command consumes is given by the command's own bytes and is
\* the same whether or not the buffers it names exist and the channel is
\* enabled: the next command is decoded from the end of the command
C37_ConsumedByCommand == ConsumeDone => Consumed = CommandLength

\* where the condition of a conditional starts, and the buffer it checks
CondAt ==
    IF last.op \in {"COND_CALL", "COND_JUMP"} THEN ArgAt
    ELSE ArgAt + OffsetBytes(ArgAt, TRUE)

CheckedBuffer == CmdByte(CondAt + 1) + 256 * CmdByte(CondAt + 2)

\* the command takes its operand from the stream
InlineOperand ==
    IF last.op = "ADJUST"
    THEN /\ (CmdByte(ArgAt) % (ADJUST_OP_MASK + 1)) > ADJUST_NEG
         /\ ~Bit(CmdByte(ArgAt), ADJUST_BUFFER_VALUE)
    ELSE /\ (CmdByte(CondAt) % (COND_OP_MASK + 1)) > COND_NOT_EXISTS
         /\ ~Bit(CmdByte(CondAt), COND_BUFFER_VALUE)

\* C37: a conditional with an operand byte in the stream has checked a
\* buffer that is not in the store: it has consumed one byte less than its
\* length, and the operand byte is the next byte to be decoded
C37_OperandLeft ==
    /\ ConsumeDone
    /\ last.op \in CondOps
    /\ InlineOperand
    /\ CheckedBuffer \notin DOMAIN pre.buffers
    /\ Consumed = CommandLength - 1
    /\ Rem # <<>>
    /\ Rem[1] = RemBefore[CommandLength]

\* C37: the same conditional, the checked buffer in the store and the
\* condition false: the whole command has been consumed
C37_OperandRead ==
    /\ ConsumeDone
    /\ last.op \in CondOps
    /\ InlineOperand
    /\ CheckedBuffer \in DOMAIN pre.buffers
    /\ ~last.arg.taken
    /\ Consumed = CommandLength

\* C37: an ADJUST with two operand bytes in the stream, for a buffer that is
\* not in the store, has left both of them in the stream
C37_AdjustOperandsLeft ==
    /\ ConsumeDone
    /\ last.op = "ADJUST"
    /\ InlineOperand
    /\ Bit(CmdByte(ArgAt), ADJUST_MULTI_OPERAND)
    /\ last.id \notin DOMAIN pre.buffers
    /\ Consumed = CommandLength - 2

\* C37: the same ADJUST for a buffer in the store has consumed them
C37_AdjustOperandsRead ==
    /\ ConsumeDone
    /\ last.op = "ADJUST"
    /\ InlineOperand
    /\ Bit(CmdByte(ArgAt), ADJUST_MULTI_OPERAND)
    /\ last.id \in DOMAIN pre.buffers
    /\ CommandLength = 13
    /\ Consumed = CommandLength

\* C37: an ADSR volume envelope for a channel that is not enabled has
\* consumed its type byte and none of the seven bytes of the envelope
C37_EnvelopeLeft ==
    /\ ConsumeDone
    /\ last.op = "ENV_VOLUME"
    /\ ~channelEnabled(pre.audioChannels, CmdByte(4))
    /\ CommandLength = 13
    /\ Consumed = 6

\* C37: a stepped frequency envelope of one phase for an enabled channel has
\* consumed its fourteen bytes, and for a channel not enabled six
C37_FrequencyRead ==
    /\ ConsumeDone
    /\ last.op = "ENV_FREQUENCY"
    /\ channelEnabled(pre.audioChannels, CmdByte(4))
    /\ CommandLength = 14
    /\ Consumed = 14

C37_FrequencyLeft ==
    /\ ConsumeDone
    /\ last.op = "ENV_FREQUENCY"
    /\ ~channelEnabled(pre.audioChannels, CmdByte(4))
    /\ CommandLength = 14
    /\ Consumed = 6

\* the target bytes of the ADJUST can all be read: the offset, and with
\* MULTI_TARGET the count - 1 bytes after it, lie in the buffer
AdjustReadable ==
    LET command == CmdByte(ArgAt)
        adv == Bit(command, ADJUST_ADVANCED_OFFSETS)
        multi == Bit(command, ADJUST_MULTI_TARGET) \/ Bit(command, ADJUST_MULTI_OPERAND)
        offset == CountAt(ArgAt + 1, adv)
        count == IF multi THEN CountAt(ArgAt + 1 + OffsetBytes(ArgAt + 1, adv), adv)
                 ELSE 1
        targets == IF Bit(command, ADJUST_MULTI_TARGET) THEN count ELSE 1
    IN  /\ last.id \in DOMAIN pre.buffers
        /\ offset + targets <= TotalSize(pre.buffers[last.id], pre.heap)

\* what the command names is there: the buffer of the ADJUST with its target
\* bytes, the buffer the conditional checks, the enabled channel
NamedPresent ==
    IF last.op = "ADJUST" THEN AdjustReadable
    ELSE IF last.op \in CondOps THEN CheckedBuffer \in DOMAIN pre.buffers
    ELSE channelEnabled(pre.audioChannels, CmdByte(4))

\* C37: a command never consumes more than its length; it consumes all of
\* it when what it names is there, and whenever it has no operand in the
\* stream (ADJUST, conditional)
C37_ConsumedWhenPresent ==
    ConsumeDone =>
        /\ Consumed <= CommandLength
        /\ NamedPresent => Consumed = CommandLength
        /\ (last.op \in CondOps \cup {"ADJUST"} /\ ~InlineOperand)
               => Consumed = CommandLength

====
